---- MODULE Spec2Model ----
(***************************************************************************)
(* AniMate background engine: session tracker, daily aggregator,           *)
(* classification cache, notification scheduler and the stale-tolerant     *)
(* remote cache, modelled from src/src/background/service-worker.js and    *)
(* the API clients it calls.                                               *)
(*                                                                         *)
(* Time is counted in seconds (the code counts milliseconds; every         *)
(* threshold of the code is a whole number of seconds).  Instant 0 is      *)
(* 00:00:00 UTC of day 0.  Every handler runs to completion as one action. *)
(***************************************************************************)
EXTENDS Integers, Sequences, FiniteSets, TLC

\* ------------------------------------------------------------------ bounds
MaxDays == 1          \* whole days the hour-triggered rules are followed through
MaxSessions == 3      \* persisted session records (browsing_sessions rows)
MaxRestarts == 1      \* service-worker evictions / respawns
MaxDomains == 45      \* distinct unresolved domains visited in the classify runs
MaxVersion == 2       \* versions of a remote payload
MaxInits == 2         \* runs of initialize() after the one at worker load

\* ------------------------------------------------------- program constants
DaySec == 86400            \* toISOString().slice(0, 10) changes every 24 h of UTC
HourSec == 3600
MinuteSec == 60
MinSessionSec == 1         \* handleTabChange: duration > 1000 ms
HeartbeatMinSec == 5       \* persistActiveSession: duration > 5000 ms
ReadyProductiveSec == 60   \* checkReadyToStart: productiveTime < 60000
OneHourSec == 3600         \* checkProgressMilestones: productiveMs >= 3600000
TopN == 20                 \* aggregateDailyStats: slice(0, 20)
BatchMax == 20             \* batchClassifyDomains / classifyDomains: slice(0, 20)
WindowMinutes == 2         \* hour-triggered rules: currentMinute < 2
DefaultGoalMinutes == 240
DefaultDistractionMinutes == 60
DefaultBriefingHour == 9
DefaultReadyHour == 10
DefaultEndOfDayHour == 18
DefaultWarningMinutes == 5

CooldownSec == 30 * 60            \* checkDistractionAlert: cooldown
BufferSec == 60                   \* checkMeetingAwareness: bufferMs
PruneAfterSec == 60 * 60          \* checkMeetingAwareness: 1 hour in the past
WeatherTTL == 15 * 60
GithubTTL == 5 * 60
CalendarTTL == 5 * 60
GmailTTL == 2 * 60
RetentionSec == 30 * DaySec
CacheRetentionSec == 24 * HourSec

Null == [isNull |-> TRUE]

\* ----------------------------------------------------------------- domains
KNOWN_PRODUCTIVE ==
  { "github.com", "gitlab.com", "bitbucket.org", "stackoverflow.com",
    "developer.mozilla.org", "docs.google.com", "notion.so", "linear.app",
    "jira.atlassian.com", "trello.com", "asana.com", "figma.com", "vercel.com",
    "netlify.com", "aws.amazon.com", "console.cloud.google.com",
    "portal.azure.com", "claude.ai", "chat.openai.com", "localhost" }
KNOWN_DISTRACTIONS ==
  { "twitter.com", "x.com", "facebook.com", "instagram.com", "reddit.com",
    "youtube.com", "tiktok.com", "netflix.com", "twitch.tv", "discord.com",
    "hulu.com", "disneyplus.com", "primevideo.com", "9gag.com", "buzzfeed.com" }

\* The i-th domain of the bulk set used by the classification runs.
Site(i) == "site" \o ToString(i)
Sites == {Site(i) : i \in 1..MaxDomains}

Url(scheme, host, path) == [scheme |-> scheme, host |-> host, path |-> path]

Urls ==
  { Url("https", "github.com", "/"),
    Url("https", "youtube.com", "/"),
    Url("https", "example.com", "/"),
    Url("https", "example.com", "/login"),
    Url("https", "accounts.google.com", "/"),
    Url("chrome", "newtab", "/") }

\* Urls and two pages that only the lists of the settings name.
ExcludeUrls ==
  Urls \cup { Url("https", "okta.com", "/"), Url("https", "example.com", "/callback") }

Domains == {u.host : u \in ExcludeUrls} \cup KNOWN_PRODUCTIVE \cup KNOWN_DISTRACTIONS \cup Sites

Classes == {"productive", "distraction", "neutral"}

\* ---------------------------------------------------------------- variables
VARIABLES
  now,               \* Date.now(), in seconds
  tz,                \* local time zone offset in seconds (local = UTC + tz)
  epoch,             \* number of process restarts so far
  config,            \* the user's settings (settings store, config keys)
  activeTabState,    \* the open session, or Null
  sessions,          \* browsing_sessions store, in primary-key order
  classifications,   \* domain_classifications store: domain -> record or Null
  dailyStats,        \* daily_stats store: day -> snapshot or Null
  markers,           \* settings store, keys eod_<date> and work_start_<date>
  dailyState,        \* the in-memory rule ledger
  notifiedMeetings,  \* ids of the meetings already warned about
  externalCache,     \* external_cache store: key -> entry or Null
  remote,            \* the remote collaborators' current data
  notifLog,          \* every chrome.notifications.create call so far
  track,             \* bookkeeping of wall-clock time for the tracker's claims
  lastFetch,         \* outcome of the latest remote-cache read
  lastClassify,      \* the classifier calls of the latest classify operation
  suspended,         \* the handlers waiting at an await, in order of suspension
  lastCleanup,       \* what the latest cleanup sweep attempted, deleted and logged
  listeners,         \* number of listeners added to chrome.runtime.onMessage
  lastDispatch,      \* the latest message: handler invocations and sendResponse calls
  classifyTick       \* parity of the number of classify alarms fired so far

progVars == <<activeTabState, sessions, classifications, dailyStats, markers,
              dailyState, notifiedMeetings, externalCache, notifLog, track,
              lastFetch, lastClassify, suspended, lastCleanup, listeners,
              lastDispatch, classifyTick>>
envVars == <<now, tz, epoch, config, remote>>
vars == <<now, tz, epoch, config, remote, activeTabState, sessions, classifications,
          dailyStats, markers, dailyState, notifiedMeetings, externalCache,
          notifLog, track, lastFetch, lastClassify, suspended, lastCleanup,
          listeners, lastDispatch, classifyTick>>

\* ------------------------------------------------------------------- clock
\* Day 0 is the day before the first instant of the model (Date.now() is far
\* from 0, so now - 0 always exceeds every cooldown): instants lie in days
\* 1..MaxDays + 1, the last day being reached by the runs that cross the last
\* midnight only.
Days == 0..(MaxDays + 1)
StartTime == DaySec
LastMidnight == (MaxDays + 1) * DaySec
MaxTime == LastMidnight + DaySec - 1

\* new Date().toISOString().slice(0, 10): the UTC calendar date.
Today(t) == t \div DaySec

\* The local calendar date of instant t.
LocalDay(t) == (t + tz) \div DaySec

\* now.getHours() / now.getMinutes(): local wall-clock hour and minute.
GetHours(t) == ((t + tz + DaySec) % DaySec) \div HourSec
GetMinutes(t) == (((t + tz + DaySec) % DaySec) % HourSec) \div MinuteSec

\* value || fallback, for numeric settings (0 and undefined are both falsy).
OrDefault(v, d) == IF v = 0 THEN d ELSE v

\* ------------------------------------------------------------ small helpers
RECURSIVE SumSeq(_)
SumSeq(s) == IF s = <<>> THEN 0 ELSE Head(s) + SumSeq(Tail(s))

RECURSIVE SelectSeqBy(_, _)
SelectSeqBy(s, day) ==
  IF s = <<>> THEN <<>>
  ELSE IF Head(s).date = day THEN <<Head(s)>> \o SelectSeqBy(Tail(s), day)
       ELSE SelectSeqBy(Tail(s), day)

Min(a, b) == IF a < b THEN a ELSE b

\* The program state the handlers read and write, as one record.
Cur ==
  [ activeTabState |-> activeTabState, sessions |-> sessions,
    classifications |-> classifications, dailyStats |-> dailyStats,
    markers |-> markers, dailyState |-> dailyState,
    notifiedMeetings |-> notifiedMeetings, externalCache |-> externalCache,
    notifLog |-> notifLog, track |-> track, lastFetch |-> lastFetch,
    lastClassify |-> lastClassify, suspended |-> suspended,
    lastCleanup |-> lastCleanup, listeners |-> listeners,
    lastDispatch |-> lastDispatch, classifyTick |-> classifyTick ]

Commit(s) ==
  /\ activeTabState' = s.activeTabState
  /\ sessions' = s.sessions
  /\ classifications' = s.classifications
  /\ dailyStats' = s.dailyStats
  /\ markers' = s.markers
  /\ dailyState' = s.dailyState
  /\ notifiedMeetings' = s.notifiedMeetings
  /\ externalCache' = s.externalCache
  /\ notifLog' = s.notifLog
  /\ track' = s.track
  /\ lastFetch' = s.lastFetch
  /\ lastClassify' = s.lastClassify
  /\ suspended' = s.suspended
  /\ lastCleanup' = s.lastCleanup
  /\ listeners' = s.listeners
  /\ lastDispatch' = s.lastDispatch
  /\ classifyTick' = s.classifyTick

\* chrome.notifications.create(id, ...): appended to the log with the rule,
\* the notification id's subject, the instant and the process epoch.
Notify(s, rule, subject, body) ==
  [s EXCEPT !.notifLog =
     Append(@, [rule |-> rule, subject |-> subject, at |-> now, epoch |-> epoch,
                body |-> body])]

\* ----------------------------------------------------------- session tracker
\* String.prototype.includes / toLowerCase over the strings of the model.
ToLower(str) == str
Includes(hay, needle) == hay = needle

authPatterns ==
  { "accounts.google.com", "login.microsoftonline.com", "auth0.com",
    "/login", "/signin", "/auth", "/oauth", "/sso" }

shouldExclude(url) ==
  \/ url.scheme \in {"chrome", "chrome-extension"}
  \/ url.scheme = "about"
  \/ \E p \in authPatterns :
       Includes(ToLower(url.host), p) \/ Includes(ToLower(url.path), p)

extractDomain(url) == url.host

FreshDailyState(day) ==
  [ date |-> day, morningBriefingSent |-> FALSE, readyNudgeSent |-> FALSE,
    firstProductiveCelebrated |-> FALSE, lastDistractionAlert |-> 0,
    oneHourCelebrated |-> FALSE, goalCelebrated |-> FALSE ]

\* dailyState as the module is loaded: date null (here -1).
InitialDailyState == FreshDailyState(-1)

resetDailyStateIfNeededFresh(s) ==
  [s EXCEPT !.dailyState = FreshDailyState(Today(now))]

\* A rollover that moves the ledger to the new day and keeps what it holds.
resetDailyStateIfNeededKeepFlags(s) ==
  IF s.dailyState.date # Today(now)
  THEN [s EXCEPT !.dailyState.date = Today(now)]
  ELSE s

resetDailyStateIfNeeded(s) ==
  IF s.dailyState.date # Today(now)
  THEN [s EXCEPT !.dailyState = FreshDailyState(Today(now))]
  ELSE s

checkIfProductive(s, domain) ==
  \/ domain \in KNOWN_PRODUCTIVE
  \/ /\ s.classifications[domain] # Null
     /\ s.classifications[domain].classification = "productive"

celebrateFirstProductiveAction(s0, domain) ==
  LET s == resetDailyStateIfNeeded(s0) IN
  IF s.dailyState.firstProductiveCelebrated THEN s
  ELSE IF ~checkIfProductive(s, domain) THEN s
  ELSE LET s1 == [s EXCEPT !.dailyState.firstProductiveCelebrated = TRUE,
                           !.markers.workStart = @ \cup {Today(now)}]
       IN Notify(s1, "first_productive", "first_productive", {})

\* Bookkeeping: a session or classification was written, so the stored
\* snapshot is no longer the latest aggregation of the stores.
Written(s) == [s EXCEPT !.track.runs = 0]

\* db.put("browsing_sessions", {...activeTabState, endTime: now, duration}).
ClosedSession(a, duration) ==
  [ url |-> a.url, domain |-> a.domain, startTime |-> a.startTime,
    endTime |-> now, duration |-> duration, date |-> a.date,
    classification |-> a.classification, expiresAt |-> a.expiresAt ]

\* A tracker that opens a session on every URL.
handleTabChangeTrackAll(s0, url) ==
  LET a == s0.activeTabState
      duration == IF a = Null THEN 0 ELSE now - a.startTime
      s1 == IF a # Null /\ duration > MinSessionSec
            THEN Written([s0 EXCEPT !.sessions = Append(@, ClosedSession(a, duration))])
            ELSE s0
  IN [s1 EXCEPT !.activeTabState =
        [ url |-> url, domain |-> extractDomain(url), startTime |-> now,
          date |-> Today(now), classification |-> "unclassified",
                         expiresAt |-> now + RetentionSec ],
                !.track.first = IF @ < 0 THEN now ELSE @,
                !.track.last = now]

handleTabChange(s0, url) ==
  LET a == s0.activeTabState
      duration == IF a = Null THEN 0 ELSE now - a.startTime
      s1 == IF a # Null /\ duration > MinSessionSec
            THEN Written([s0 EXCEPT !.sessions = Append(@, ClosedSession(a, duration))])
            ELSE IF a # Null /\ s0.track.on
                 THEN [s0 EXCEPT !.track.dropped = @ + duration]
                 ELSE s0
      s2 == IF s1.track.on
            THEN [s1 EXCEPT !.track.first = IF @ < 0 THEN now ELSE @,
                            !.track.last = now]
            ELSE s1
  IN IF shouldExclude(url)
     THEN [s2 EXCEPT !.activeTabState = Null]
     ELSE LET domain == extractDomain(url)
              s3 == [s2 EXCEPT !.activeTabState =
                       [ url |-> url, domain |-> domain, startTime |-> now,
                         date |-> Today(now), classification |-> "unclassified",
                         expiresAt |-> now + RetentionSec ]]
          IN celebrateFirstProductiveAction(s3, domain)

persistActiveSessionNoReset(s) ==
  LET a == s.activeTabState IN
  IF a = Null THEN s
  ELSE LET duration == now - a.startTime IN
       IF duration > HeartbeatMinSec
       THEN Written([s EXCEPT !.sessions = Append(@, ClosedSession(a, duration))])
       ELSE s

persistActiveSession(s) ==
  LET a == s.activeTabState IN
  IF a = Null THEN s
  ELSE LET duration == now - a.startTime IN
       IF duration > HeartbeatMinSec
       THEN Written([s EXCEPT !.sessions = Append(@, ClosedSession(a, duration)),
                              !.activeTabState.startTime = now])
       ELSE s

\* ---------------------------------------------------------- daily aggregator
\* The classification aggregateDailyStats gives a session: the stamped value,
\* else the cache entry, else "unclassified".
SessionClass(s, session) ==
  IF session.classification = "unclassified"
  THEN IF s.classifications[session.domain] # Null
       THEN s.classifications[session.domain].classification
       ELSE "unclassified"
  ELSE session.classification

RECURSIVE ClassTime(_, _, _)
ClassTime(s, list, classSet) ==
  IF list = <<>> THEN 0
  ELSE (IF SessionClass(s, Head(list)) \in classSet THEN Head(list).duration ELSE 0)
       + ClassTime(s, Tail(list), classSet)

RECURSIVE TotalTime(_)
TotalTime(list) ==
  IF list = <<>> THEN 0 ELSE Head(list).duration + TotalTime(Tail(list))

\* domainMap: one entry per domain in first-insertion order, the classification
\* being that of the domain's first session.
RECURSIVE DomainMap(_, _, _)
DomainMap(s, list, acc) ==
  IF list = <<>> THEN acc
  ELSE LET h == Head(list)
           idx == {i \in 1..Len(acc) : acc[i].domain = h.domain}
       IN IF idx = {}
          THEN DomainMap(s, Tail(list),
                 Append(acc, [domain |-> h.domain, duration |-> h.duration,
                              classification |-> SessionClass(s, h)]))
          ELSE LET i == CHOOSE j \in idx : TRUE
               IN DomainMap(s, Tail(list),
                    [acc EXCEPT ![i].duration = @ + h.duration])

\* Array.prototype.sort((a, b) => b.duration - a.duration): stable, descending.
RECURSIVE InsertDesc(_, _)
InsertDesc(sorted, e) ==
  IF sorted = <<>> THEN <<e>>
  ELSE IF Head(sorted).duration >= e.duration
       THEN <<Head(sorted)>> \o InsertDesc(Tail(sorted), e)
       ELSE <<e>> \o sorted

RECURSIVE SortDesc(_, _)
SortDesc(list, acc) ==
  IF list = <<>> THEN acc ELSE SortDesc(Tail(list), InsertDesc(acc, Head(list)))

Slice(list, n) == SubSeq(list, 1, Min(Len(list), n))

\* Math.round(x / y) for non-negative x and positive y.
RoundDiv(x, y) == (2 * x + y) \div (2 * y)

\* Snapshot patched onto the stored one instead of recomputed.
SnapshotIncremental(s, day, prev) ==
  LET list == SelectSeqBy(s.sessions, day)
      old == IF prev = Null THEN 0 ELSE prev.totalTime
  IN [ date |-> day,
       totalTime |-> old + TotalTime(list),
       productiveTime |-> ClassTime(s, list, {"productive"}),
       distractionTime |-> ClassTime(s, list, {"distraction"}),
       neutralTime |-> ClassTime(s, list, {"neutral", "unclassified"}),
       topDomains |-> Slice(SortDesc(DomainMap(s, list, <<>>), <<>>), TopN),
       goalProgress |-> 0,
       sessionCount |-> Len(list),
       updatedAt |-> now ]

\* A snapshot that leaves the sessions without classification out of the
\* three buckets.
SnapshotClassifiedOnly(s, day, prev) ==
  LET list == SelectSeqBy(s.sessions, day)
      productiveTime == ClassTime(s, list, {"productive"})
      goalMinutes == OrDefault(config.focusGoalMinutes, DefaultGoalMinutes)
  IN [ date |-> day,
       totalTime |-> TotalTime(list),
       productiveTime |-> productiveTime,
       distractionTime |-> ClassTime(s, list, {"distraction"}),
       neutralTime |-> ClassTime(s, list, {"neutral"}),
       topDomains |-> Slice(SortDesc(DomainMap(s, list, <<>>), <<>>), TopN),
       goalProgress |-> Min(RoundDiv(productiveTime * 100, goalMinutes * 60), 100),
       sessionCount |-> Len(list),
       updatedAt |-> now ]

Snapshot(s, day, prev) ==
  LET list == SelectSeqBy(s.sessions, day)
      productiveTime == ClassTime(s, list, {"productive"})
      goalMinutes == OrDefault(config.focusGoalMinutes, DefaultGoalMinutes)
  IN [ date |-> day,
       totalTime |-> TotalTime(list),
       productiveTime |-> productiveTime,
       distractionTime |-> ClassTime(s, list, {"distraction"}),
       neutralTime |-> ClassTime(s, list, {"neutral", "unclassified"}),
       topDomains |-> Slice(SortDesc(DomainMap(s, list, <<>>), <<>>), TopN),
       goalProgress |-> Min(RoundDiv(productiveTime * 100, goalMinutes * 60), 100),
       sessionCount |-> Len(list),
       updatedAt |-> now ]

\* track.runs counts the aggregations of day track.aggDay that ran since the
\* last write to the sessions or the classifications (2: two or more).
aggregateDailyStats(s) ==
  [s EXCEPT !.dailyStats[Today(now)] = Snapshot(s, Today(now), @),
            !.track.runs = IF s.track.aggDay = Today(now) THEN Min(@ + 1, 2) ELSE 1,
            !.track.aggDay = Today(now)]

\* ------------------------------------------------- stale-tolerant remote cache
CacheKeys == {"weather_dashboard", "github_dashboard", "google_calendar", "google_gmail"}
MeetingIds == {"m1", "m2"}
Outcomes == {"ok", "transient", "unauthenticated"}

\* The events the calendar API returns for [start of the local day, +24 h),
\* ordered by start time.
RECURSIVE EventsOf(_, _)
EventsOf(cal, ids) ==
  IF ids = {} THEN <<>>
  ELSE LET first == CHOOSE i \in ids : \A j \in ids : cal[i].start <= cal[j].start
       IN <<[id |-> first, start |-> cal[first].start]>>
          \o EventsOf(cal, ids \ {first})

TodaysRemoteEvents ==
  EventsOf(remote.calendar,
           {i \in MeetingIds : LocalDay(remote.calendar[i].start) = LocalDay(now)})

RemotePayload(key) ==
  IF key = "google_calendar" THEN TodaysRemoteEvents ELSE [v |-> remote.version[key]]

\* What a read of the cache gave: the payload or the error returned, whether
\* the payload carries stale: true, whether and how the fetcher ended, and the
\* entry found in the store.
FetchResult(key, status, data, staleFlag, outcome, before) ==
  [ key |-> key, status |-> status, data |-> data, staleFlag |-> staleFlag,
    invoked |-> outcome # "none", outcome |-> outcome, before |-> before,
    at |-> now ]

\* The read-through pattern shared by the four cache users.  annotate tells
\* whether the failure branch returns {...cached.data, stale: true} or the bare
\* cached.data.  The result is left in s.lastFetch.
CachedFetch(s, key, ttl, outcome, annotate) ==
  LET cached == s.externalCache[key] IN
  IF cached # Null /\ now - cached.fetchedAt < ttl
  THEN [s EXCEPT !.lastFetch =
          FetchResult(key, "fresh", cached.data, FALSE, "none", cached)]
  ELSE IF outcome = "ok"
  THEN [s EXCEPT !.externalCache[key] = [data |-> RemotePayload(key), fetchedAt |-> now],
                 !.lastFetch =
          FetchResult(key, "fetched", RemotePayload(key), FALSE, outcome, cached)]
  ELSE IF cached # Null
  THEN [s EXCEPT !.lastFetch =
          FetchResult(key, "stale", cached.data, annotate, outcome, cached)]
  ELSE [s EXCEPT !.lastFetch =
          FetchResult(key, "error", outcome, FALSE, outcome, cached)]

GetGithubRepos(s, outcome) == CachedFetch(s, "github_dashboard", GithubTTL, outcome, TRUE)
GetWeather(s, outcome) == CachedFetch(s, "weather_dashboard", WeatherTTL, outcome, TRUE)
getTodaysEvents(s, outcome) == CachedFetch(s, "google_calendar", CalendarTTL, outcome, FALSE)
getUnreadEmails(s, outcome) == CachedFetch(s, "google_gmail", GmailTTL, outcome, FALSE)

\* weather.getDashboardWeather(), as the scheduler calls it: a request to the
\* weather API whatever the external_cache store holds, the answer not stored.
getDashboardWeather(s, outcome) ==
  [s EXCEPT !.lastFetch =
     IF outcome = "ok"
     THEN FetchResult("weather_dashboard", "fetched", RemotePayload("weather_dashboard"),
                      FALSE, outcome, s.externalCache["weather_dashboard"])
     ELSE FetchResult("weather_dashboard", "error", outcome,
                      FALSE, outcome, s.externalCache["weather_dashboard"])]

\* The answer of the GET_CALENDAR_EVENTS / GET_GMAIL_UNREAD handler to the read
\* left in s.lastFetch: the payload with authenticated: true, the empty payload
\* with authenticated: false on a "Not authenticated" error, or the error.
GoogleResponse(s) ==
  IF s.lastFetch.status # "error"
  THEN [threw |-> FALSE, data |-> s.lastFetch.data, authenticated |-> TRUE]
  ELSE IF s.lastFetch.outcome = "unauthenticated"
       THEN [threw |-> FALSE, data |-> <<>>, authenticated |-> FALSE]
       ELSE [threw |-> TRUE, data |-> <<>>, authenticated |-> FALSE]

\* safeCall(() => calendar.getTodaysEvents()): the events, or null on a throw.
\* Every caller treats null and the empty list alike (calendarData?.length > 0,
\* !events || events.length === 0), so null is given as the empty list.
SafeEvents(s) == IF s.lastFetch.status = "error" THEN <<>> ELSE s.lastFetch.data

\* --------------------------------------------------- notification scheduler
InWindow(hour) == GetHours(now) = hour /\ GetMinutes(now) < WindowMinutes

\* A briefing that gives up when the calendar cannot be read.
checkMorningBriefingNeedsCalendar(s0, fx) ==
  LET s == resetDailyStateIfNeeded(s0) IN
  IF s.dailyState.morningBriefingSent THEN s
  ELSE IF ~config.enableMorningBriefing THEN s
  ELSE IF ~InWindow(OrDefault(config.morningBriefingHour, DefaultBriefingHour)) THEN s
  ELSE LET s1 == [s EXCEPT !.dailyState.morningBriefingSent = TRUE]
           s2 == getTodaysEvents(s1, fx.calendar)
       IN IF s2.lastFetch.status = "error" THEN s2
          ELSE Notify(getDashboardWeather(s2, fx.weather),
                      "morning_briefing", "morning_briefing", {"calendar"})

checkMorningBriefing(s0, fx) ==
  LET s == resetDailyStateIfNeeded(s0) IN
  IF s.dailyState.morningBriefingSent THEN s
  ELSE IF ~config.enableMorningBriefing THEN s
  ELSE IF ~InWindow(OrDefault(config.morningBriefingHour, DefaultBriefingHour)) THEN s
  ELSE LET s1 == [s EXCEPT !.dailyState.morningBriefingSent = TRUE]
           s2 == getTodaysEvents(s1, fx.calendar)
           calendarData == SafeEvents(s2)
           yesterdayStats == IF fx.stats = "ok" THEN s2.dailyStats[Today(now) - 1]
                             ELSE Null
           s3 == getDashboardWeather(s2, fx.weather)
           body == (IF Len(calendarData) > 0
                    THEN {"calendar"} ELSE {})
                   \cup (IF yesterdayStats # Null THEN {"yesterday"} ELSE {})
                   \cup (IF s3.lastFetch.status = "fetched" THEN {"weather"} ELSE {})
       IN Notify(s3, "morning_briefing", "morning_briefing", body)

\* A nudge that does not look at the first-productive flag.
checkReadyToStartNoSignal(s0, fx) ==
  LET s == resetDailyStateIfNeeded(s0) IN
  IF s.dailyState.readyNudgeSent THEN s
  ELSE IF ~config.enableStartNudges THEN s
  ELSE IF ~InWindow(OrDefault(config.readyCheckHour, DefaultReadyHour)) THEN s
  ELSE LET stats == s.dailyStats[Today(now)] IN
       IF stats # Null /\ ~(stats.productiveTime < ReadyProductiveSec) THEN s
       ELSE Notify(getTodaysEvents([s EXCEPT !.dailyState.readyNudgeSent = TRUE],
                                   fx.calendar),
                   "ready_nudge", "ready_nudge", {})

checkReadyToStart(s0, fx) ==
  LET s == resetDailyStateIfNeeded(s0) IN
  IF s.dailyState.readyNudgeSent \/ s.dailyState.firstProductiveCelebrated THEN s
  ELSE IF ~config.enableStartNudges THEN s
  ELSE IF ~InWindow(OrDefault(config.readyCheckHour, DefaultReadyHour)) THEN s
  ELSE LET stats == s.dailyStats[Today(now)] IN
       IF stats # Null /\ ~(stats.productiveTime < ReadyProductiveSec) THEN s
       ELSE LET s1 == [s EXCEPT !.dailyState.readyNudgeSent = TRUE]
                s2 == getTodaysEvents(s1, fx.calendar)
                calendarData == SafeEvents(s2)
                body == IF Len(calendarData) > 0
                        THEN {"calendar"} ELSE {}
            IN Notify(s2, "ready_nudge", "ready_nudge", body)

checkEndOfDayNoMarker(s) ==
  IF ~config.enableEndOfDaySummary THEN s
  ELSE IF Today(now) \in s.markers.eod THEN s
  ELSE IF ~InWindow(OrDefault(config.endOfDayHour, DefaultEndOfDayHour)) THEN s
  ELSE LET stats == s.dailyStats[Today(now)] IN
       IF stats # Null /\ stats.productiveTime > 0
       THEN Notify(s, "end_of_day", "end_of_day", {})
       ELSE s

checkEndOfDay(s) ==
  IF ~config.enableEndOfDaySummary THEN s
  ELSE IF Today(now) \in s.markers.eod THEN s
  ELSE IF ~InWindow(OrDefault(config.endOfDayHour, DefaultEndOfDayHour)) THEN s
  ELSE LET s1 == [s EXCEPT !.markers.eod = @ \cup {Today(now)}]
           stats == s1.dailyStats[Today(now)]
       IN IF stats # Null /\ stats.productiveTime > 0
          THEN Notify(s1, "end_of_day", "end_of_day", {})
          ELSE s1

\* A check that re-evaluates the thresholds on every tick.
checkProgressMilestonesUnlatched(s0) ==
  LET s == resetDailyStateIfNeeded(s0)
      stats == s.dailyStats[Today(now)]
  IN IF stats = Null THEN s
     ELSE LET productiveMs == stats.productiveTime
              goalMs == OrDefault(config.dailyFocusGoalMinutes, DefaultGoalMinutes) * 60
              s1 == IF productiveMs >= OneHourSec
                    THEN Notify(s, "milestone_1hr", "milestone_1hr", {})
                    ELSE s
          IN IF productiveMs >= goalMs
             THEN Notify(s1, "milestone_goal", "milestone_goal", {})
             ELSE s1

checkProgressMilestones(s0) ==
  LET s == resetDailyStateIfNeeded(s0)
      stats == s.dailyStats[Today(now)]
  IN IF stats = Null THEN s
     ELSE LET productiveMs == stats.productiveTime
              goalMs == OrDefault(config.dailyFocusGoalMinutes, DefaultGoalMinutes) * 60
              s1 == IF ~s.dailyState.oneHourCelebrated /\ productiveMs >= OneHourSec
                    THEN Notify([s EXCEPT !.dailyState.oneHourCelebrated = TRUE],
                                "milestone_1hr", "milestone_1hr", {})
                    ELSE s
          IN IF ~s1.dailyState.goalCelebrated /\ productiveMs >= goalMs
             THEN Notify([s1 EXCEPT !.dailyState.goalCelebrated = TRUE],
                         "milestone_goal", "milestone_goal", {})
             ELSE s1

\* An alert that fires once a day and stays silent afterwards.
checkDistractionAlertOnce(s0) ==
  LET s == resetDailyStateIfNeeded(s0) IN
  IF ~config.enableDistractionAlerts THEN s
  ELSE IF s.dailyState.lastDistractionAlert # 0 THEN s
  ELSE LET stats == s.dailyStats[Today(now)] IN
       IF stats = Null THEN s
       ELSE IF stats.distractionTime >=
                 OrDefault(config.distractionAlertMinutes, DefaultDistractionMinutes) * 60
            THEN Notify([s EXCEPT !.dailyState.lastDistractionAlert = now],
                        "distraction_alert", "distraction_alert", {})
            ELSE s

checkDistractionAlert(s0) ==
  LET s == resetDailyStateIfNeeded(s0) IN
  IF ~config.enableDistractionAlerts THEN s
  ELSE IF now - s.dailyState.lastDistractionAlert < CooldownSec THEN s
  ELSE LET stats == s.dailyStats[Today(now)] IN
       IF stats = Null THEN s
       ELSE LET distractionMs == stats.distractionTime
                thresholdMs ==
                  OrDefault(config.distractionAlertMinutes, DefaultDistractionMinutes) * 60
            IN IF distractionMs >= thresholdMs
               THEN Notify([s EXCEPT !.dailyState.lastDistractionAlert = now],
                           "distraction_alert", "distraction_alert", {})
               ELSE s

\* The loop with the test of the warned set left out.
RECURSIVE WarnLoopNoSet(_, _, _)
WarnLoopNoSet(s, events, warningWindowMs) ==
  IF events = <<>> THEN s
  ELSE LET event == Head(events)
           timeUntilStart == event.start - now
       IN IF /\ timeUntilStart > warningWindowMs - BufferSec
             /\ timeUntilStart <= warningWindowMs + 2 * BufferSec
          THEN WarnLoopNoSet(
                 Notify([s EXCEPT !.notifiedMeetings = @ \cup {event.id}],
                        "meeting", event.id, {event.start}),
                 Tail(events), warningWindowMs)
          ELSE WarnLoopNoSet(s, Tail(events), warningWindowMs)

\* The loop over the fetched events: warn every event not yet notified whose
\* time until start lies in the band.
RECURSIVE WarnLoop(_, _, _)
WarnLoop(s, events, warningWindowMs) ==
  IF events = <<>> THEN s
  ELSE LET event == Head(events)
           timeUntilStart == event.start - now
       IN IF event.id \in s.notifiedMeetings
          THEN WarnLoop(s, Tail(events), warningWindowMs)
          ELSE IF /\ timeUntilStart > warningWindowMs - BufferSec
                  /\ timeUntilStart <= warningWindowMs + 2 * BufferSec
               THEN WarnLoop(
                      Notify([s EXCEPT !.notifiedMeetings = @ \cup {event.id}],
                             "meeting", event.id, {event.start}),
                      Tail(events), warningWindowMs)
               ELSE WarnLoop(s, Tail(events), warningWindowMs)

\* The ids the clean-up loop deletes: those found in the fetched list with a
\* start more than one hour in the past.
Pruned(s, events) ==
  { id \in s.notifiedMeetings :
      \E i \in 1..Len(events) :
        /\ events[i].id = id
        /\ now - (LET first == CHOOSE j \in 1..Len(events) : 
                                 /\ events[j].id = id
                                 /\ \A k \in 1..(j - 1) : events[k].id # id
                  IN events[first].start) > PruneAfterSec }

checkMeetingAwareness(s0, outcome) ==
  IF ~config.enableMeetingAwareness THEN s0
  ELSE LET s == getTodaysEvents(s0, outcome)
           events == SafeEvents(s)
       IN IF events = <<>> THEN s
          ELSE LET w == OrDefault(config.meetingWarningMinutes, DefaultWarningMinutes) * 60
                   s1 == WarnLoop(s, events, w)
               IN [s1 EXCEPT !.notifiedMeetings = @ \ Pruned(s1, events)]

\* ------------------------------------------------------ classification cache
isAIEnabled == config.aiEnabled /\ config.anthropicApiKey

\* The classifier's answers the model draws from: every domain of the call
\* classified alike with the last `omit` domains left out of the response, a
\* transport error, or a response that does not parse.
Responses ==
  { [kind |-> "ok", class |-> c, omit |-> k] :
      c \in {"productive", "distraction"}, k \in {0, 1} }
  \cup { [kind |-> "transport"], [kind |-> "malformed"] }

\* A client that sends every domain it is given.
classifyDomainsWhole(domains, response) ==
  IF response.kind = "ok"
  THEN [ threw |-> FALSE, sent |-> domains,
         classifications |->
           [i \in 1..(IF Len(domains) > response.omit THEN Len(domains) - response.omit ELSE 0)
              |-> [domain |-> domains[i], classification |-> response.class]] ]
  ELSE [ threw |-> TRUE, sent |-> domains, classifications |-> <<>> ]

\* anthropic.classifyDomains(domains): one request for domains.slice(0, 20);
\* the parsed classifications, or a throw.
classifyDomains(domains, response) ==
  LET batch == Slice(domains, BatchMax) IN
  IF response.kind = "ok"
  THEN [ threw |-> FALSE, sent |-> batch,
         classifications |->
           [i \in 1..(IF Len(batch) > response.omit THEN Len(batch) - response.omit ELSE 0)
              |-> [domain |-> batch[i], classification |-> response.class]] ]
  ELSE [ threw |-> TRUE, sent |-> batch, classifications |-> <<>> ]

RECURSIVE PutClassifications(_, _)
PutClassifications(s, items) ==
  IF items = <<>> THEN s
  ELSE PutClassifications(
         Written([s EXCEPT !.classifications[Head(items).domain] =
            [classification |-> Head(items).classification, source |-> "ai",
             classifiedAt |-> now]]),
         Tail(items))

\* The Set `uncached` in insertion order: the domains of today's sessions that
\* are stamped unclassified and have no cache entry.
RECURSIVE Uncached(_, _, _)
Uncached(s, list, acc) ==
  IF list = <<>> THEN acc
  ELSE LET h == Head(list) IN
       IF /\ h.classification = "unclassified"
          /\ s.classifications[h.domain] = Null
          /\ \A i \in 1..Len(acc) : acc[i] # h.domain
       THEN Uncached(s, Tail(list), Append(acc, h.domain))
       ELSE Uncached(s, Tail(list), acc)

ClassifyRecord(op, unresolved, calls, failed) ==
  [op |-> op, unresolved |-> unresolved, calls |-> calls, failed |-> failed]

batchClassifyDomains(s, response) ==
  IF ~isAIEnabled THEN s
  ELSE LET uncached == Uncached(s, SelectSeqBy(s.sessions, Today(now)), <<>>) IN
       IF uncached = <<>> THEN s
       ELSE LET domainsToClassify == Slice(uncached, BatchMax)
                result == classifyDomains(domainsToClassify, response)
                s1 == [s EXCEPT !.lastClassify =
                         ClassifyRecord("batch", uncached, <<result.sent>>,
                                        IF result.threw THEN {1} ELSE {})]
            IN IF result.threw THEN s1
               ELSE aggregateDailyStats(PutClassifications(s1, result.classifications))

\* A filter that lets every domain through.
NotCachedAll(s, domains) == domains

RECURSIVE NotCached(_, _)
NotCached(s, domains) ==
  IF domains = <<>> THEN <<>>
  ELSE IF s.classifications[Head(domains)] = Null
       THEN <<Head(domains)>> \o NotCached(s, Tail(domains))
       ELSE NotCached(s, Tail(domains))

\* The CLASSIFY_DOMAIN message handler.
ClassifyDomainHandler(s, domains, response) ==
  IF domains = <<>> THEN s
  ELSE LET uncached == NotCached(s, domains) IN
       IF uncached = <<>> \/ ~isAIEnabled THEN s
       ELSE LET classified == classifyDomains(uncached, response)
                s1 == [s EXCEPT !.lastClassify =
                         ClassifyRecord("handler", uncached, <<classified.sent>>,
                                        IF classified.threw THEN {1} ELSE {})]
            IN IF classified.threw THEN s1
               ELSE PutClassifications(s1, classified.classifications)

\* The CLASSIFY_DOMAIN message handler when the parsed response holds items:
\* every item is stored under the domain the item names.
ClassifyDomainHandlerStoring(s, domains, items) ==
  IF domains = <<>> THEN s
  ELSE LET uncached == NotCached(s, domains) IN
       IF uncached = <<>> \/ ~isAIEnabled THEN s
       ELSE PutClassifications(
              [s EXCEPT !.lastClassify =
                 ClassifyRecord("handler", uncached, <<Slice(uncached, BatchMax)>>, {})],
              items)

\* ------------------------------------------------------------ cleanup sweep
\* The stores runCleanup walks, in the order of its list.  clipboard_entries,
\* tab_sessions and network_requests hold no record of the modelled operations.
CleanupStores ==
  <<"browsing_sessions", "clipboard_entries", "tab_sessions", "network_requests",
    "external_cache">>

\* The external_cache entries that carry an expiresAt: the two the GET_WEATHER
\* and GET_GITHUB_REPOS handlers put; the calendar and mail clients put none.
ExpiringKeys == {"weather_dashboard", "github_dashboard"}

ExpiredKeys(s) ==
  { k \in ExpiringKeys :
      IF s.externalCache[k] = Null THEN FALSE
      ELSE s.externalCache[k].fetchedAt + CacheRetentionSec <= now }

\* db.deleteExpired(storeName): deletes the records of the by_expires index up
\* to and including now, and resolves with their number.
deleteExpired(s, storeName) ==
  IF storeName = "browsing_sessions"
  THEN LET kept == SelectSeq(s.sessions, LAMBDA r : r.expiresAt > now) IN
       [state |-> [s EXCEPT !.sessions = kept],
        deleted |-> Len(s.sessions) - Len(kept)]
  ELSE IF storeName = "external_cache"
  THEN [state |-> [s EXCEPT !.externalCache =
                     [k \in CacheKeys |-> IF k \in ExpiredKeys(s) THEN Null ELSE @[k]]],
        deleted |-> Cardinality(ExpiredKeys(s))]
  ELSE [state |-> s, deleted |-> 0]

\* What a sweep leaves behind: the stores it called deleteExpired on, the sum
\* it logs, the stores its console.error lines name, and whether it reached
\* its closing log line.  failed is the set of stores whose deletion rejected.
CleanupRecord(ran, failed) ==
  [ran |-> ran, failed |-> failed, attempted |-> <<>>, totalDeleted |-> 0,
   errors |-> <<>>, completed |-> FALSE, at |-> now]

\* A sweep that lets the first rejection end it.
RECURSIVE runCleanupAbort(_, _)
runCleanupAbort(s, stores) ==
  IF stores = <<>> THEN [s EXCEPT !.lastCleanup.completed = TRUE]
  ELSE LET store == Head(stores)
           s1 == [s EXCEPT !.lastCleanup.attempted = Append(@, store)]
       IN IF store \in s.lastCleanup.failed
          THEN [s1 EXCEPT !.lastCleanup.errors = Append(@, store)]
          ELSE LET d == deleteExpired(s1, store) IN
               runCleanupAbort(
                 [d.state EXCEPT !.lastCleanup.totalDeleted = @ + d.deleted],
                 Tail(stores))

\* The for loop of runCleanup over the rest of its list, and its closing log.
RECURSIVE runCleanupLoop(_, _)
runCleanupLoop(s, stores) ==
  IF stores = <<>> THEN [s EXCEPT !.lastCleanup.completed = TRUE]
  ELSE LET store == Head(stores)
           s1 == [s EXCEPT !.lastCleanup.attempted = Append(@, store)]
       IN IF store \in s.lastCleanup.failed
          THEN runCleanupLoop(
                 [s1 EXCEPT !.lastCleanup.errors = Append(@, store)], Tail(stores))
          ELSE LET d == deleteExpired(s1, store) IN
               runCleanupLoop(
                 [d.state EXCEPT !.lastCleanup.totalDeleted = @ + d.deleted],
                 Tail(stores))

runCleanup(s, failed) ==
  runCleanupLoop([s EXCEPT !.lastCleanup = CleanupRecord(TRUE, failed)], CleanupStores)

\* ------------------------------------------------------------ message router
\* A message is its action; NoAction stands for a message that is null or has
\* no action field.
NoAction == ""
Response(success, error) == [success |-> success, error |-> error]

\* The handler registry after registerHandlers(): Map.set keeps one handler
\* per action however often it runs.  The handlers followed here are the ones
\* of the external cache.
handlers == {"GET_WEATHER", "GET_CALENDAR_EVENTS", "GET_GMAIL_UNREAD", "GOOGLE_SIGN_OUT"}

\* The GET_CALENDAR_EVENTS and GET_GMAIL_UNREAD handlers catch the error of
\* their fetcher: "Not authenticated" becomes an empty answer, any other
\* error is thrown again.  The GET_WEATHER handler throws whatever its fetcher
\* threw when the cache has nothing to fall back on.
HandlerResult(s, error) == [state |-> s, threw |-> error # "", error |-> error]

GetWeatherHandler(s, outcome) ==
  LET t == GetWeather(s, outcome)
  IN HandlerResult(t, IF t.lastFetch.status = "error" THEN outcome ELSE "")

GetCalendarEventsHandler(s, outcome) ==
  LET t == getTodaysEvents(s, outcome)
  IN HandlerResult(t, IF t.lastFetch.status = "error" /\ outcome # "unauthenticated"
                      THEN outcome ELSE "")

GetGmailUnreadHandler(s, outcome) ==
  LET t == getUnreadEmails(s, outcome)
  IN HandlerResult(t, IF t.lastFetch.status = "error" /\ outcome # "unauthenticated"
                      THEN outcome ELSE "")

\* The members of the db object the storage module exports.
dbMembers == {"openDB", "closeDB", "put", "get", "getAll", "getAllFromIndex", "getRange",
              "remove", "deleteExpired", "clear", "count", "getLatest", "bulkPut"}

\* clearCache() of the calendar and of the mail module: db.delete(store, key).
\* Calling a member the object does not have throws a TypeError.
clearCache(s, key) ==
  IF "delete" \in dbMembers
  THEN [state |-> [s EXCEPT !.externalCache[key] = Null], error |-> ""]
  ELSE [state |-> s, error |-> "db.delete is not a function"]

\* The GOOGLE_SIGN_OUT handler: signOut(), then the two clearCache() calls,
\* then return {success: true}; the first call that throws ends the handler.
GoogleSignOutHandler(s) ==
  LET c == clearCache(s, "google_calendar")
  IN IF c.error # "" THEN HandlerResult(c.state, c.error)
     ELSE LET g == clearCache(c.state, "google_gmail")
          IN HandlerResult(g.state, g.error)

\* handler(payload, sender) of a registered action.
RunHandler(s, action, outcome) ==
  IF action = "GET_WEATHER" THEN GetWeatherHandler(s, outcome)
  ELSE IF action = "GET_CALENDAR_EVENTS" THEN GetCalendarEventsHandler(s, outcome)
  ELSE IF action = "GET_GMAIL_UNREAD" THEN GetGmailUnreadHandler(s, outcome)
  ELSE GoogleSignOutHandler(s)

\* One listener added by initializeRouter, called with a message: d carries
\* the state, the handler invocations and the sendResponse calls so far.
Listener(d, action, outcome) ==
  IF action = NoAction
  THEN [d EXCEPT !.responses = Append(@, Response(FALSE, "Invalid message format"))]
  ELSE IF action \notin handlers
  THEN [d EXCEPT !.responses = Append(@, Response(FALSE, "Unknown action"))]
  ELSE LET r == RunHandler(d.state, action, outcome)
       IN [ state |-> r.state, invocations |-> d.invocations + 1,
            responses |-> Append(d.responses,
                                 IF r.threw THEN Response(FALSE, r.error)
                                 ELSE Response(TRUE, "")) ]

\* chrome.runtime.onMessage calls every listener that was added.
RECURSIVE RunListeners(_, _, _, _)
RunListeners(d, n, action, outcome) ==
  IF n = 0 THEN d
  ELSE RunListeners(Listener(d, action, outcome), n - 1, action, outcome)

onMessage(s, action, outcome) ==
  LET d == RunListeners([state |-> s, invocations |-> 0, responses |-> <<>>],
                        s.listeners, action, outcome)
  IN [d.state EXCEPT !.lastDispatch =
        [action |-> action, invocations |-> d.invocations,
         responses |-> d.responses, at |-> now]]

\* initialize(): initializeRouter() adds one more listener (a new closure each
\* time), registerHandlers() sets the same handlers again.
initialize(s) == [s EXCEPT !.listeners = @ + 1]

NoDispatch == [action |-> NoAction, invocations |-> 0, responses |-> <<>>, at |-> 0]

\* ------------------------------------------------------------ initial states
\* DEFAULT_CONFIG, as initializeSettings stores it; focusGoalMinutes is a key
\* the defaults do not have (0: undefined).
DefaultConfig ==
  [ dailyFocusGoalMinutes |-> DefaultGoalMinutes,
    focusGoalMinutes |-> 0,
    distractionAlertMinutes |-> DefaultDistractionMinutes,
    enableDistractionAlerts |-> TRUE,
    enableMorningBriefing |-> TRUE, morningBriefingHour |-> DefaultBriefingHour,
    enableStartNudges |-> TRUE, readyCheckHour |-> DefaultReadyHour,
    enableEndOfDaySummary |-> TRUE, endOfDayHour |-> DefaultEndOfDayHour,
    enableMeetingAwareness |-> TRUE, meetingWarningMinutes |-> DefaultWarningMinutes,
    aiEnabled |-> TRUE, anthropicApiKey |-> TRUE,
    excludedDomains |-> {"accounts.google.com", "login.microsoftonline.com",
                         "auth0.com", "okta.com", "login.okta.com"},
    excludedPaths |-> {"/login", "/signin", "/auth", "/oauth", "/saml", "/sso",
                       "/callback", "/2fa", "/mfa"} ]

NoFetch == FetchResult("none", "none", <<>>, FALSE, "none", Null)
NoClassify == ClassifyRecord("none", <<>>, <<>>, {})
NoCleanup == CleanupRecord(FALSE, {})

\* No meeting on the calendar of the modelled days: both start on day 0.
NoMeetings == [i \in MeetingIds |-> [start |-> 0, rev |-> 0]]

NoClassifications == [d \in Domains |-> Null]
Classified(class, source) ==
  [classification |-> class, source |-> source, classifiedAt |-> 0]

\* The state of a freshly loaded worker; the sessions and the classification
\* cache are the stores' content, which each specification states.  The
\* wall-clock bookkeeping of track is kept where timed is TRUE.
InitProgram(timed) ==
  /\ epoch = 0
  /\ activeTabState = Null
  /\ dailyStats = [d \in Days |-> Null]
  /\ markers = [eod |-> {}, workStart |-> {}]
  /\ dailyState = InitialDailyState
  /\ notifiedMeetings = {}
  /\ externalCache = [k \in CacheKeys |-> Null]
  /\ notifLog = <<>>
  /\ track = [on |-> timed, first |-> -1, last |-> -1, excluded |-> 0,
              dropped |-> 0, runs |-> 0, aggDay |-> -1]
  /\ lastFetch = NoFetch
  /\ lastClassify = NoClassify
  /\ suspended = <<>>
  /\ lastCleanup = NoCleanup
  /\ listeners = 1
  /\ lastDispatch = NoDispatch
  /\ classifyTick = 0

\* ------------------------------------------------------------------ actions
\* The clock moves to a later instant of T; the time passed with no open
\* session after the first event is time in an excluded context.
Advance(T) ==
  /\ \E t \in T :
       /\ t > now
       /\ t <= MaxTime
       /\ now' = t
       /\ track' = [track EXCEPT !.excluded =
                      IF track.on /\ track.first >= 0 /\ activeTabState = Null
                      THEN @ + (t - now) ELSE @]
  /\ UNCHANGED <<tz, epoch, config, remote, activeTabState, sessions, classifications,
                 dailyStats, markers, dailyState, notifiedMeetings, externalCache,
                 notifLog, lastFetch, lastClassify, suspended, lastCleanup,
                 listeners, lastDispatch, classifyTick>>

\* The handler may run unless it would store a record beyond MaxSessions.
RoomFor(minimum) ==
  IF activeTabState = Null THEN TRUE
  ELSE IF now - activeTabState.startTime > minimum THEN Len(sessions) < MaxSessions
  ELSE TRUE

\* chrome.tabs.onActivated / onUpdated: the active tab shows url.
TabChange(U) ==
  /\ RoomFor(MinSessionSec)
  /\ \E url \in U : Commit(handleTabChange(Cur, url))
  /\ UNCHANGED envVars

\* A heartbeat that checks the milestones before it flushes and aggregates.
HeartbeatCheckFirst(s, outcome) ==
  checkMeetingAwareness(
    checkDistractionAlert(
      aggregateDailyStats(
        persistActiveSession(
          checkProgressMilestones(s)))), outcome)

\* The "heartbeat" alarm.
Heartbeat(s, outcome) ==
  checkMeetingAwareness(
    checkDistractionAlert(
      checkProgressMilestones(
        aggregateDailyStats(
          persistActiveSession(s)))), outcome)

HeartbeatAlarm ==
  /\ RoomFor(HeartbeatMinSec)
  /\ \E outcome \in Outcomes : Commit(Heartbeat(Cur, outcome))
  /\ UNCHANGED envVars

\* The outcomes of the fetches a briefing makes: the calendar's, the
\* weather's and the read of yesterday's snapshot.
FetchOutcomes ==
  [calendar : Outcomes, weather : {"ok", "transient"}, stats : {"ok", "transient"}]

\* The "morning-briefing" alarm, its fetches ending as one of FX.
MorningBriefingAlarm(FX) ==
  /\ \E fx \in FX : Commit(checkMorningBriefing(Cur, fx))
  /\ UNCHANGED envVars

\* The "ready-check" alarm.
ReadyCheckAlarm(FX) ==
  /\ \E fx \in FX : Commit(checkReadyToStart(Cur, fx))
  /\ UNCHANGED envVars

EndOfDayAlarm ==
  /\ Commit(checkEndOfDay(Cur))
  /\ UNCHANGED envVars

ClassifyAlarm ==
  /\ \E response \in Responses :
       Commit([batchClassifyDomains(Cur, response) EXCEPT !.classifyTick = 1 - @])
  /\ UNCHANGED envVars

\* The cleanup alarm; the deletions of the stores of failed reject.
CleanupAlarm(F) ==
  /\ \E failed \in F : Commit(runCleanup(Cur, failed))
  /\ UNCHANGED envVars

\* The worker is evicted and respawned: module state is re-created, the
\* stores are kept.
\* A load that restores the ledger and the warned set of the process before.
LoadedWorkerResumed(s) ==
  [s EXCEPT !.activeTabState = Null, !.suspended = <<>>, !.listeners = 1]

\* The module-level declarations, evaluated when the worker script is loaded,
\* and the initialize() call that ends the script: the new process has the one
\* message listener that call adds.
LoadedWorker(s) ==
  [s EXCEPT !.activeTabState = Null, !.dailyState = InitialDailyState,
            !.notifiedMeetings = {}, !.suspended = <<>>, !.listeners = 1]

Restart ==
  /\ epoch < MaxRestarts
  /\ epoch' = epoch + 1
  /\ Commit(LoadedWorker(Cur))
  /\ UNCHANGED <<now, tz, config, remote>>

\* ---------------------------------------------------- tracker specification
TrackOffsets == {1, 2, 8, 9, 3709}
TrackInstants == {StartTime + o : o \in TrackOffsets}
TrackConfig == [DefaultConfig EXCEPT !.enableMeetingAwareness = FALSE]

InitTrack ==
  /\ now = StartTime
  /\ tz = 0
  /\ config = TrackConfig
  /\ remote = [calendar |-> NoMeetings, version |-> [k \in CacheKeys |-> 0]]
  /\ sessions = <<>>
  /\ classifications \in
       { NoClassifications,
         [NoClassifications EXCEPT !["example.com"] = Classified("distraction", "ai")] }
  /\ InitProgram(TRUE)

NextTrack ==
  \/ Advance(TrackInstants)
  \/ TabChange(Urls)
  \/ HeartbeatAlarm

SpecTrack == InitTrack /\ [][NextTrack]_vars

\* ---------------------------------------------------------- tracker claims
SessionTime == TotalTime(sessions)
WallClock == track.last - track.first
AtEvent == track.first >= 0 /\ track.last = now

SameSnapshotButTime(a, b) == [a EXCEPT !.updatedAt = 0] = [b EXCEPT !.updatedAt = 0]

\* A step that aggregates today again with no session or classification
\* written since the previous aggregation of today.
AggregatedAgain ==
  /\ track.runs >= 1
  /\ track.aggDay = Today(now)
  /\ track'.runs = 2
  /\ sessions' = sessions
  /\ classifications' = classifications

\* C6 (as stated): aggregating a day twice with nothing written in between
\* stores two snapshots equal in every field.
C6_AggregateIdempotent ==
  [][AggregatedAgain => dailyStats'[Today(now)] = dailyStats[Today(now)]]_vars

\* C6 (amended): aggregating a day twice with nothing written in between
\* stores two snapshots equal in every field other than updatedAt.
C6_AggregateIdempotentButTime ==
  [][AggregatedAgain =>
       SameSnapshotButTime(dailyStats'[Today(now)], dailyStats[Today(now)])]_vars

C6_Witness ==
  /\ track.runs = 2
  /\ track.aggDay = Today(now)
  /\ dailyStats[Today(now)].sessionCount >= 2
  /\ dailyStats[Today(now)].totalTime > 0
  /\ \E i \in 1..Len(sessions) : dailyStats[Today(now)].updatedAt > sessions[i].endTime

RECURSIVE ListedTime(_, _)
ListedTime(list, domainSet) ==
  IF list = <<>> THEN 0
  ELSE (IF Head(list).domain \in domainSet THEN Head(list).duration ELSE 0)
       + ListedTime(Tail(list), domainSet)

\* C7: in the snapshot aggregateDailyStats has just stored, the sessions of the
\* static allow-list count as productive time and those of the static
\* deny-list as distraction time, whatever their stamp and the cache hold.
C7_StaticListsResolveFirst ==
  (track.runs >= 1 /\ track.aggDay = Today(now)) =>
    LET list == SelectSeqBy(sessions, Today(now))
        stats == dailyStats[Today(now)]
    IN /\ stats.productiveTime >= ListedTime(list, KNOWN_PRODUCTIVE)
       /\ stats.distractionTime >= ListedTime(list, KNOWN_DISTRACTIONS)

\* ------------------------------------------------- daily-rule specification
\* Local wall-clock marks of a day: 09:00, 10:00 and 18:00.
DailyMarks ==
  { DefaultBriefingHour * HourSec, DefaultReadyHour * HourSec,
    DefaultEndOfDayHour * HourSec }

DailyFetches == { [calendar |-> "transient", weather |-> "ok", stats |-> "ok"] }

\* Time zones of the daily specification: UTC and UTC+10.
TzEast == 10 * HourSec
DailyZones == {0, TzEast}

DailyInstants ==
  { t \in {d * DaySec + m - tz : d \in Days, m \in DailyMarks} : t < LastMidnight }

DailyUrls == {Url("https", "github.com", "/")}

InitDaily ==
  /\ now = StartTime
  /\ tz \in DailyZones
  /\ config = TrackConfig
  /\ remote = [calendar |-> NoMeetings, version |-> [k \in CacheKeys |-> 0]]
  /\ sessions = <<>>
  /\ classifications =
       [NoClassifications EXCEPT !["github.com"] = Classified("productive", "ai")]
  /\ InitProgram(FALSE)

NextDaily ==
  \/ Advance(DailyInstants)
  \/ TabChange(DailyUrls)
  \/ HeartbeatAlarm
  \/ MorningBriefingAlarm(DailyFetches)
  \/ ReadyCheckAlarm(DailyFetches)

SpecDaily == InitDaily /\ [][NextDaily]_vars

\* ------------------------------------------------------- daily-rule claims
DailyOnceRules ==
  {"morning_briefing", "ready_nudge", "first_productive", "milestone_1hr",
   "milestone_goal"}

Fired(rule, day, e) ==
  { i \in 1..Len(notifLog) :
      /\ notifLog[i].rule = rule
      /\ Today(notifLog[i].at) = day
      /\ notifLog[i].epoch = e }

EodMarks == {DefaultEndOfDayHour * HourSec, DefaultEndOfDayHour * HourSec + MinuteSec}

EodInstants ==
  { t \in {d * DaySec + m - tz : d \in Days, m \in EodMarks} : t < LastMidnight }

NextEod ==
  \/ Advance(EodInstants)
  \/ TabChange(DailyUrls)
  \/ HeartbeatAlarm
  \/ EndOfDayAlarm
  \/ Restart

SpecEod == InitDaily /\ [][NextEod]_vars

EndOfDaySent(day) ==
  { i \in 1..Len(notifLog) :
      notifLog[i].rule = "end_of_day" /\ Today(notifLog[i].at) = day }

\* C3: for every calendar date, the end-of-day summary is created at most
\* once over all ticks and restarts, and the date's durable marker is stored
\* whenever the summary of the date has been created.
C3_EndOfDayOncePerDate ==
  \A day \in Days :
    /\ Cardinality(EndOfDaySent(day)) <= 1
    /\ EndOfDaySent(day) # {} => day \in markers.eod
    /\ \A i, j \in 1..Len(notifLog) :
         (/\ i < j
          /\ notifLog[i].rule = "end_of_day"
          /\ notifLog[j].rule = "end_of_day")
         => (notifLog[i].at + tz) \div DaySec # (notifLog[j].at + tz) \div DaySec

\* The summary of today was sent by an earlier process, the marker is stored,
\* and the restarted process is inside the end-of-day window again.
C3_Witness ==
  /\ epoch > 0
  /\ \E i \in EndOfDaySent(Today(now)) :
       notifLog[i].epoch < epoch /\ notifLog[i].at < now
  /\ Today(now) \in markers.eod
  /\ InWindow(OrDefault(config.endOfDayHour, DefaultEndOfDayHour))
  /\ dailyStats[Today(now)] # Null
  /\ dailyStats[Today(now)].updatedAt = now

\* ------------------------------------------- distraction-alert specification
\* Heartbeats every ten minutes from 23:30 to 00:20 around the last midnight,
\* and one at 00:50; the user has set the alert threshold to ten minutes and
\* youtube.com is cached as a distraction.
AlertOffsets == {-30, -20, -10, 0, 10, 20, 50}
AlertInstants == {LastMidnight + m * MinuteSec : m \in AlertOffsets}
AlertUrls == {Url("https", "youtube.com", "/")}
AlertConfig == [TrackConfig EXCEPT !.distractionAlertMinutes = 10]

InitAlert ==
  /\ now = LastMidnight - 30 * MinuteSec
  /\ tz = 0
  /\ config = AlertConfig
  /\ remote = [calendar |-> NoMeetings, version |-> [k \in CacheKeys |-> 0]]
  /\ sessions = <<>>
  /\ classifications =
       [NoClassifications EXCEPT !["youtube.com"] = Classified("distraction", "ai")]
  /\ InitProgram(FALSE)

NextAlert ==
  \/ Advance(AlertInstants)
  \/ TabChange(AlertUrls)
  \/ HeartbeatAlarm

SpecAlert == InitAlert /\ [][NextAlert]_vars

Alerts == {i \in 1..Len(notifLog) : notifLog[i].rule = "distraction_alert"}

\* C2: two distraction alerts of one process are never created less than 30
\* minutes apart, on the same day or on the two sides of a day rollover.
C2_AlertCooldown ==
  \A i, j \in Alerts :
    (i < j /\ notifLog[i].epoch = notifLog[j].epoch)
    => notifLog[j].at - notifLog[i].at >= CooldownSec

\* ------------------------------------------------- meeting specification
\* Meeting m1 starts ten minutes after the first instant; the organiser may
\* move a meeting to 00:10 or to 01:30, MaxVersion times per meeting.
MeetingStarts == {StartTime + 10 * MinuteSec, StartTime + 90 * MinuteSec}
MeetingOffsets == {2, 3, 4, 6, 71, 83, 84}
MeetingInstants == {StartTime + m * MinuteSec : m \in MeetingOffsets}

InitMeeting ==
  /\ now = StartTime
  /\ tz = 0
  /\ config = DefaultConfig
  /\ remote = [calendar |-> [NoMeetings EXCEPT !["m1"].start = StartTime + 10 * MinuteSec],
               version |-> [k \in CacheKeys |-> 0]]
  /\ sessions = <<>>
  /\ classifications = NoClassifications
  /\ InitProgram(FALSE)

\* The organiser moves a meeting on the calendar.
Reschedule ==
  /\ \E id \in MeetingIds : \E start \in MeetingStarts :
       /\ remote.calendar[id].rev < MaxVersion
       /\ remote.calendar[id].start # start
       /\ remote' = [remote EXCEPT !.calendar[id] = [start |-> start, rev |-> @.rev + 1]]
  /\ UNCHANGED <<now, tz, epoch, config>>
  /\ UNCHANGED progVars

NextMeeting ==
  \/ Advance(MeetingInstants)
  \/ HeartbeatAlarm
  \/ Reschedule

SpecMeeting == InitMeeting /\ [][NextMeeting]_vars

Warnings(id) ==
  {i \in 1..Len(notifLog) : notifLog[i].rule = "meeting" /\ notifLog[i].subject = id}

\* C4 (as stated): while the process stays alive, each meeting id gets at most
\* one meeting-awareness warning.
C4_OneWarningPerMeeting ==
  \A id \in MeetingIds : \A i, j \in Warnings(id) :
    notifLog[i].epoch = notifLog[j].epoch => i = j

\* C4 (amended): while the process stays alive, each meeting id gets at most
\* one warning per start time: a second warning for the same id is for a
\* start the meeting was moved to after the first warning.
C4_OneWarningPerStart ==
  \A id \in MeetingIds : \A i, j \in Warnings(id) :
    (notifLog[i].epoch = notifLog[j].epoch /\ notifLog[i].body = notifLog[j].body)
    => i = j

\* A meeting was warned, stayed in the band on a later tick that left it
\* alone, was pruned an hour after its start, moved, and warned again.
C4_Witness ==
  \E i, j \in Warnings("m1") :
    /\ i < j
    /\ notifLog[i].epoch = notifLog[j].epoch
    /\ notifLog[j].at - notifLog[i].at > PruneAfterSec
    /\ "m1" \in notifiedMeetings
    /\ externalCache["google_calendar"] # Null
    /\ externalCache["google_calendar"].fetchedAt < now
    /\ lastFetch.status = "fresh"

\* -------------------------------------------- classification specification
\* Today's sessions as the classify tick finds them: n closed sessions, one per
\* domain Site(1) .. Site(n), every one stamped unclassified.
SessionsOn(n) ==
  [ i \in 1..n |->
      [ url |-> Url("https", Site(i), "/"), domain |-> Site(i),
        startTime |-> StartTime - 10 * i, endTime |-> StartTime - 10 * i + 9,
        duration |-> 9, date |-> Today(StartTime), classification |-> "unclassified",
        expiresAt |-> StartTime - 10 * i + RetentionSec ] ]

\* The domain lists of the CLASSIFY_DOMAIN messages: one domain, and one
\* more than a batch.
MessageSizes == {1, BatchMax + 1}

\* The numbers of unresolved domains the runs start with.
InitialDomains == {1, BatchMax + 1, MaxDomains}

InitClassify ==
  /\ now = StartTime
  /\ tz = 0
  /\ config = TrackConfig
  /\ remote = [calendar |-> NoMeetings, version |-> [k \in CacheKeys |-> 0]]
  /\ \E n \in InitialDomains : sessions = SessionsOn(n)
  /\ classifications = NoClassifications
  /\ InitProgram(FALSE)

\* A CLASSIFY_DOMAIN message carrying the first k domains.
ClassifyDomainMessage ==
  /\ \E k \in MessageSizes : \E response \in Responses :
       /\ k <= MaxDomains
       /\ Commit(ClassifyDomainHandler(Cur, [i \in 1..k |-> Site(i)], response))
  /\ UNCHANGED envVars

NextClassify ==
  \/ ClassifyAlarm
  \/ ClassifyDomainMessage

SpecClassify == InitClassify /\ [][NextClassify]_vars

CeilDiv(a, b) == (a + b - 1) \div b

\* C8: a batch classification finding n unresolved domains issues ceil(n / 20)
\* classifier calls (45 domains: 3 calls).
C8_CeilCalls ==
  lastClassify.op = "batch" =>
    Len(lastClassify.calls) = CeilDiv(Len(lastClassify.unresolved), BatchMax)

\* C9: after a classification whose classifier call failed, every domain of
\* the failed call is cached as neutral with source fallback.
C9_FallbackStored ==
  \A c \in lastClassify.failed :
    \A i \in 1..Len(lastClassify.calls[c]) :
      LET entry == classifications[lastClassify.calls[c][i]]
      IN IF entry = Null THEN FALSE
         ELSE entry.classification = "neutral" /\ entry.source = "fallback"

\* ---------------------------------------------------- cache specification
\* Reads of the four keys at 0, 6 and 21 minutes, the remote data changing
\* in between.
CacheOffsets == {6, 21}
CacheInstants == {StartTime + m * MinuteSec : m \in CacheOffsets}

\* The remote collaborators publish new data.
RemoteChange ==
  /\ \A key \in CacheKeys : remote.version[key] < MaxVersion
  /\ remote' = [remote EXCEPT !.version = [key \in CacheKeys |-> @[key] + 1]]
  /\ UNCHANGED <<now, tz, epoch, config>>
  /\ UNCHANGED progVars

\* The GET_GITHUB_REPOS, GET_WEATHER, GET_CALENDAR_EVENTS and GET_GMAIL_UNREAD
\* messages.
GetGithubReposMessage ==
  /\ \E outcome \in Outcomes : Commit(GetGithubRepos(Cur, outcome))
  /\ UNCHANGED envVars

GetWeatherMessage ==
  /\ \E outcome \in Outcomes : Commit(GetWeather(Cur, outcome))
  /\ UNCHANGED envVars

GetCalendarEventsMessage ==
  /\ \E outcome \in Outcomes : Commit(getTodaysEvents(Cur, outcome))
  /\ UNCHANGED envVars

GetGmailUnreadMessage ==
  /\ \E outcome \in Outcomes : Commit(getUnreadEmails(Cur, outcome))
  /\ UNCHANGED envVars

NextCache ==
  \/ Advance(CacheInstants)
  \/ RemoteChange
  \/ GetGithubReposMessage
  \/ GetWeatherMessage
  \/ GetCalendarEventsMessage
  \/ GetGmailUnreadMessage

SpecCache == InitMeeting /\ [][NextCache]_vars

\* C10: when the entry of a key is older than its TTL and the fetcher fails
\* with a transient error, the read returns the stored payload annotated
\* stale and leaves the entry as it was; with no entry the failure is
\* propagated.
C10_StaleOnTransientFailure ==
  lastFetch.outcome = "transient" =>
    IF lastFetch.before # Null
    THEN /\ lastFetch.status = "stale"
         /\ lastFetch.data = lastFetch.before.data
         /\ lastFetch.staleFlag
         /\ externalCache[lastFetch.key] = lastFetch.before
    ELSE /\ lastFetch.status = "error"
         /\ externalCache[lastFetch.key] = Null

\* ------------------------------------------------- the briefing's own reads
\* The minutes before and after local 09:00 of the first day, on a machine in
\* UTC: the cache readers of the dashboard and the scheduler's briefing read
\* the same remote sources.
ComposeOffsets == {-10, -2, 0, 1}
ComposeInstants ==
  {StartTime + DefaultBriefingHour * HourSec + m * MinuteSec : m \in ComposeOffsets}

ComposeConfig == [DefaultConfig EXCEPT !.readyCheckHour = DefaultBriefingHour]

InitCompose ==
  /\ now = StartTime + DefaultBriefingHour * HourSec - 10 * MinuteSec
  /\ tz = 0
  /\ config = ComposeConfig
  /\ remote = [calendar |-> [NoMeetings EXCEPT !["m1"].start = StartTime + 11 * HourSec],
               version |-> [k \in CacheKeys |-> 0]]
  /\ sessions = <<>>
  /\ classifications = NoClassifications
  /\ InitProgram(FALSE)

NextCompose ==
  \/ Advance(ComposeInstants)
  \/ RemoteChange
  \/ GetWeatherMessage
  \/ GetCalendarEventsMessage
  \/ MorningBriefingAlarm(FetchOutcomes)
  \/ ReadyCheckAlarm(FetchOutcomes)

SpecCompose == InitCompose /\ [][NextCompose]_vars

\* The time-to-live of each key of the external_cache store.
TTL(key) ==
  CASE key = "github_dashboard" -> GithubTTL
    [] key = "weather_dashboard" -> WeatherTTL
    [] key = "google_calendar" -> CalendarTTL
    [] key = "google_gmail" -> GmailTTL

\* The entry a read found was younger than the key's time-to-live.
FreshEntry(r) == r.before # Null /\ r.at - r.before.fetchedAt < TTL(r.key)

\* C11: a read of a key whose entry is younger than the key's TTL returns the
\* stored payload without invoking the fetcher; a read of a key with no entry
\* or an older one invokes the fetcher, and a successful fetch overwrites the
\* entry with the new payload and the time of the read. This is to hold for
\* every consumer, the scheduler's briefing included.
C11_FreshServedElseFetched ==
  lastFetch.key # "none" =>
    IF FreshEntry(lastFetch)
    THEN ~lastFetch.invoked /\ lastFetch.data = lastFetch.before.data
    ELSE /\ lastFetch.invoked
         /\ lastFetch.outcome = "ok" =>
              /\ lastFetch.status = "fetched"
              /\ externalCache[lastFetch.key] =
                   [data |-> lastFetch.data, fetchedAt |-> lastFetch.at]

\* C12: a calendar or mail read that fails because the user is not signed in
\* is answered with the empty payload and authenticated = false even when an
\* entry of any age is stored; a transient failure with an entry stored is
\* answered with the stored payload.
C12_UnauthenticatedNotMasked ==
  lastFetch.key \in {"google_calendar", "google_gmail"} =>
    /\ lastFetch.outcome = "unauthenticated" =>
         /\ ~GoogleResponse(Cur).threw
         /\ ~GoogleResponse(Cur).authenticated
         /\ GoogleResponse(Cur).data = <<>>
    /\ (lastFetch.outcome = "transient" /\ lastFetch.before # Null) =>
         /\ GoogleResponse(Cur).authenticated
         /\ GoogleResponse(Cur).data = lastFetch.before.data

\* What a rule evaluation decided: the notifications created and the ledger.
Decision(s) == [created |-> [i \in 1..Len(s.notifLog) |-> s.notifLog[i].rule],
                ledger |-> s.dailyState]

AllOk == [calendar |-> "ok", weather |-> "ok", stats |-> "ok"]

\* C13: in every state, the morning briefing and the ready-to-start nudge
\* create their notification and set their flag in the same way whatever the
\* outcomes of the calendar, weather and yesterday-stats reads; only the body
\* of the message depends on them.
C13_FireIndependentOfFetch ==
  \A fx \in FetchOutcomes :
    /\ Decision(checkMorningBriefing(Cur, fx)) = Decision(checkMorningBriefing(Cur, AllOk))
    /\ Decision(checkReadyToStart(Cur, fx)) = Decision(checkReadyToStart(Cur, AllOk))

\* A briefing was sent with an empty body after every read failed, and the
\* nudge of the same minute was sent with the calendar in its body.
C13_Witness ==
  /\ lastFetch.status = "error"
  /\ \E i, j \in 1..Len(notifLog) :
       /\ notifLog[i].rule = "morning_briefing" /\ notifLog[i].body = {}
       /\ notifLog[j].rule = "ready_nudge" /\ notifLog[j].body = {"calendar"}
       /\ notifLog[i].at = notifLog[j].at

\* ------------------------------------------------ rollover specification
\* 23:00 and 23:50 of the first day, 00:10 and 23:00 of the next day. The user has moved the briefing and the nudge to 23:00 and the alert
\* threshold to ten minutes; youtube.com is cached as a distraction.
RolloverOffsets == {-60, -10, 10, 23 * 60}
RolloverInstants == {LastMidnight + m * MinuteSec : m \in RolloverOffsets}
RolloverUrls == {Url("https", "youtube.com", "/"), Url("https", "github.com", "/")}
RolloverConfig == [AlertConfig EXCEPT !.morningBriefingHour = 23, !.readyCheckHour = 23]

InitRollover ==
  /\ now = LastMidnight - 60 * MinuteSec
  /\ tz = 0
  /\ config = RolloverConfig
  /\ remote = [calendar |-> NoMeetings, version |-> [k \in CacheKeys |-> 0]]
  /\ sessions = <<>>
  /\ classifications =
       [NoClassifications EXCEPT !["youtube.com"] = Classified("distraction", "ai")]
  /\ InitProgram(FALSE)

NextRollover ==
  \/ Advance(RolloverInstants)
  \/ TabChange(RolloverUrls)
  \/ HeartbeatAlarm
  \/ MorningBriefingAlarm(DailyFetches)
  \/ ReadyCheckAlarm(DailyFetches)

SpecRollover == InitRollover /\ [][NextRollover]_vars

\* The program state with the ledger as it is at the start of today.
Cleared(s) == [s EXCEPT !.dailyState = FreshDailyState(Today(now))]

\* C14: when the day stored in the ledger is not today, every rule evaluates
\* as it would on a ledger with no flag set and no alert recorded: the flags
\* and the cooldown timestamp of the stored day are cleared before the rule's
\* condition is looked at.
C14_RolloverRearms ==
  dailyState.date # Today(now) =>
    /\ \A fx \in FetchOutcomes :
         /\ checkMorningBriefing(Cur, fx) = checkMorningBriefing(Cleared(Cur), fx)
         /\ checkReadyToStart(Cur, fx) = checkReadyToStart(Cleared(Cur), fx)
    /\ checkProgressMilestones(Cur) = checkProgressMilestones(Cleared(Cur))
    /\ checkDistractionAlert(Cur) = checkDistractionAlert(Cleared(Cur))
    /\ \A url \in RolloverUrls :
         handleTabChange(Cur, url) = handleTabChange(Cleared(Cur), url)

\* The briefing and the first-productive celebration of one process were
\* created on one day and again on the next.
C14_Witness ==
  \A rule \in {"morning_briefing", "first_productive"} :
    \E i, j \in 1..Len(notifLog) :
      /\ notifLog[i].rule = rule /\ notifLog[j].rule = rule
      /\ notifLog[i].epoch = notifLog[j].epoch
      /\ Today(notifLog[j].at) = Today(notifLog[i].at) + 1

\* C15: the day a rule evaluation stamps on the ledger is the local calendar
\* day of the evaluation, in every time zone: the ledger changes day only
\* when the local date has changed.
C15_LedgerFollowsLocalDay ==
  [][dailyState'.date # dailyState.date => dailyState'.date = LocalDay(now')]_vars

\* --------------------------------------------- handlers step by step
\* The listeners are async functions: a handler runs until its first await,
\* where the event loop may dispatch another event before the handler goes on.
\* handleTabChange up to "await db.put(...)": with a session to close, the
\* record is handed to the store and the handler waits; with none, it runs on
\* to the assignment of activeTabState.
handleTabChangeBegin(s, url) ==
  LET a == s.activeTabState IN
  IF a # Null /\ now - a.startTime > MinSessionSec
  THEN Written([s EXCEPT !.sessions = Append(@, ClosedSession(a, now - a.startTime)),
                         !.suspended = Append(@, [op |-> "tab", url |-> url, at |-> now])])
  ELSE handleTabChange(s, url)

\* handleTabChange after the await; f.at is the handler's const now.
handleTabChangeResume(s, f) ==
  IF shouldExclude(f.url)
  THEN [s EXCEPT !.activeTabState = Null]
  ELSE celebrateFirstProductiveAction(
         [s EXCEPT !.activeTabState =
            [ url |-> f.url, domain |-> extractDomain(f.url), startTime |-> f.at,
              date |-> Today(now), classification |-> "unclassified",
                         expiresAt |-> now + RetentionSec ]],
         extractDomain(f.url))

\* The heartbeat after persistActiveSession.
HeartbeatRest(s, outcome) ==
  checkMeetingAwareness(
    checkDistractionAlert(
      checkProgressMilestones(
        aggregateDailyStats(s))), outcome)

\* The heartbeat up to the await of persistActiveSession's db.put.
HeartbeatBegin(s, outcome) ==
  LET a == s.activeTabState IN
  IF a # Null /\ now - a.startTime > HeartbeatMinSec
  THEN Written([s EXCEPT !.sessions = Append(@, ClosedSession(a, now - a.startTime)),
                         !.suspended = Append(@, [op |-> "heartbeat", url |-> "", at |-> now])])
  ELSE HeartbeatRest(s, outcome)

\* The heartbeat after that await: "activeTabState.startTime = now" on the
\* session open by then; with none open the assignment throws and the
\* handler ends.
HeartbeatResume(s, f, outcome) ==
  IF s.activeTabState = Null THEN s
  ELSE HeartbeatRest([s EXCEPT !.activeTabState.startTime = f.at], outcome)

InterleaveOffsets == {0, 10, 20}
InterleaveInstants == {StartTime + o : o \in InterleaveOffsets}
InterleaveUrls == {Url("https", "github.com", "/"), Url("https", "youtube.com", "/"),
                   Url("chrome", "newtab", "/")}

\* The clock of the model counts seconds; the store answers within one.
AdvanceIdle ==
  /\ suspended = <<>>
  /\ Advance(InterleaveInstants)

TabChangeStart ==
  /\ Len(sessions) < MaxSessions
  /\ \E url \in InterleaveUrls : Commit(handleTabChangeBegin(Cur, url))
  /\ UNCHANGED envVars

HeartbeatStart ==
  /\ Len(sessions) < MaxSessions
  /\ \E outcome \in Outcomes : Commit(HeartbeatBegin(Cur, outcome))
  /\ UNCHANGED envVars

\* The store has written the record: the handler that waited longest goes on.
Resume ==
  /\ suspended # <<>>
  /\ LET f == Head(suspended)
         s == [Cur EXCEPT !.suspended = Tail(@)]
     IN IF f.op = "tab"
        THEN Commit(handleTabChangeResume(s, f))
        ELSE \E outcome \in Outcomes : Commit(HeartbeatResume(s, f, outcome))
  /\ UNCHANGED envVars

NextInterleave ==
  \/ AdvanceIdle
  \/ TabChangeStart
  \/ HeartbeatStart
  \/ Resume

InitInterleave ==
  /\ now = StartTime
  /\ tz = 0
  /\ config = TrackConfig
  /\ remote = [calendar |-> NoMeetings, version |-> [k \in CacheKeys |-> 0]]
  /\ sessions = <<>>
  /\ classifications =
       [NoClassifications EXCEPT !["youtube.com"] = Classified("distraction", "ai")]
  /\ InitProgram(FALSE)

SpecInterleave == InitInterleave /\ [][NextInterleave]_vars

\* C16: events and ticks are processed one at a time: at most one handler has
\* read the open session and not yet written it, so no handler begins while
\* another waits between its read and its write.
C16_OneHandlerAtATime == Len(suspended) <= 1

\* C17: no stored record and no open session carries an excluded URL; a change
\* to an excluded URL leaves no session open and stores the previous session,
\* ended at the switch, when it lasted longer than the minimum; the stored
\* durations never cover the time spent with no session open.
C17_ExcludedNeverTracked ==
  /\ \A i \in 1..Len(sessions) : ~shouldExclude(sessions[i].url)
  /\ activeTabState # Null => ~shouldExclude(activeTabState.url)
  /\ \A url \in Urls :
       shouldExclude(url) =>
         /\ handleTabChange(Cur, url).activeTabState = Null
         /\ handleTabChange(Cur, url).sessions =
              IF activeTabState # Null /\ now - activeTabState.startTime > MinSessionSec
              THEN Append(sessions,
                          ClosedSession(activeTabState, now - activeTabState.startTime))
              ELSE sessions
  /\ AtEvent => SessionTime <= WallClock - track.excluded

\* After a stored session the user spent time on an excluded page, and no
\* session is open.
C17_Witness ==
  /\ activeTabState = Null
  /\ track.excluded > 0
  /\ Len(sessions) > 0
  /\ sessions[Len(sessions)].endTime < now

\* ----------------------------------------------- exclusion specification
\* The user keeps the default lists or adds youtube.com to the excluded
\* domains, and visits pages on and off the lists.
ExcludeOffsets == {0, 5, 10}
ExcludeInstants == {StartTime + o : o \in ExcludeOffsets}

InitExclude ==
  /\ now = StartTime
  /\ tz = 0
  /\ config \in { TrackConfig,
                  [TrackConfig EXCEPT !.excludedDomains = @ \cup {"youtube.com"}] }
  /\ remote = [calendar |-> NoMeetings, version |-> [k \in CacheKeys |-> 0]]
  /\ sessions = <<>>
  /\ classifications = NoClassifications
  /\ InitProgram(FALSE)

NextExclude ==
  \/ Advance(ExcludeInstants)
  \/ TabChange(ExcludeUrls)

SpecExclude == InitExclude /\ [][NextExclude]_vars

\* The exclusion policy of the settings: an internal or extension scheme, a
\* domain matching an entry of excludedDomains, or a path containing an entry
\* of excludedPaths, whatever its case.
PolicyExcludes(url) ==
  \/ url.scheme \in {"chrome", "chrome-extension", "about"}
  \/ \E d \in config.excludedDomains : Includes(ToLower(url.host), d)
  \/ \E p \in config.excludedPaths : Includes(ToLower(url.path), p)

\* C18: a URL is excluded by the tracker exactly when the configured policy
\* excludes it, so no session is ever open on a URL of the configured lists.
C18_ExclusionIsConfigured ==
  /\ \A url \in ExcludeUrls : shouldExclude(url) <=> PolicyExcludes(url)
  /\ activeTabState # Null => ~PolicyExcludes(activeTabState.url)

\* C19: every stored record has endTime >= startTime and duration = endTime -
\* startTime and lasts no less than the minimum of one second; a context
\* change that closes a session of one second or more stores it.
C19_ThresholdInclusive ==
  /\ \A i \in 1..Len(sessions) :
       /\ sessions[i].endTime >= sessions[i].startTime
       /\ sessions[i].duration = sessions[i].endTime - sessions[i].startTime
       /\ sessions[i].duration >= MinSessionSec
  /\ \A url \in Urls :
       (activeTabState # Null /\ now - activeTabState.startTime >= MinSessionSec) =>
         /\ Len(handleTabChange(Cur, url).sessions) = Len(sessions) + 1
         /\ handleTabChange(Cur, url).sessions[Len(sessions) + 1].startTime =
              activeTabState.startTime
  /\ track.dropped = 0

\* ---------------------------------------------------- goal specification
\* The user keeps the default daily focus goal or sets it to one hour, and
\* works on github.com, cached as productive, for up to 61 minutes.
GoalOffsets == {0, 30, 60, 61}
GoalInstants == {StartTime + m * MinuteSec : m \in GoalOffsets}
GoalUrls == {Url("https", "github.com", "/"), Url("https", "youtube.com", "/")}

InitGoal ==
  /\ now = StartTime
  /\ tz = 0
  /\ config \in {TrackConfig, [TrackConfig EXCEPT !.dailyFocusGoalMinutes = 60]}
  /\ remote = [calendar |-> NoMeetings, version |-> [k \in CacheKeys |-> 0]]
  /\ sessions = <<>>
  /\ classifications =
       [NoClassifications EXCEPT !["github.com"] = Classified("productive", "ai")]
  /\ InitProgram(FALSE)

NextGoal ==
  \/ Advance(GoalInstants)
  \/ TabChange(GoalUrls)
  \/ HeartbeatAlarm

SpecGoal == InitGoal /\ [][NextGoal]_vars

\* The user's daily focus goal, in seconds, as the goal milestone reads it.
GoalTarget == OrDefault(config.dailyFocusGoalMinutes, DefaultGoalMinutes) * 60

\* C20: the goal progress of every stored snapshot is
\* min(100, round(productiveTime / goalTarget * 100)) for the user's daily
\* focus goal, an integer in 0..100 that is 100 once the productive time has
\* reached the goal.
C20_GoalProgressOfDailyGoal ==
  \A d \in Days :
    dailyStats[d] # Null =>
      /\ dailyStats[d].goalProgress =
           Min(RoundDiv(dailyStats[d].productiveTime * 100, GoalTarget), 100)
      /\ dailyStats[d].goalProgress \in 0..100
      /\ dailyStats[d].productiveTime >= GoalTarget => dailyStats[d].goalProgress = 100

\* C21: no request to the classifier carries more than 20 domains, from the
\* classify tick or from a CLASSIFY_DOMAIN message, however many domains are
\* unresolved.
C21_AtMostTwentyPerCall ==
  \A c \in 1..Len(lastClassify.calls) : Len(lastClassify.calls[c]) <= BatchMax

\* A CLASSIFY_DOMAIN message with 21 unresolved domains led to a request of
\* exactly 20.
C21_Witness ==
  /\ lastClassify.op = "handler"
  /\ Len(lastClassify.unresolved) > BatchMax
  /\ Len(lastClassify.calls) = 1
  /\ Len(lastClassify.calls[1]) = BatchMax

\* The latest classification operation stored at least one new entry.
WroteEntries ==
  \E c \in 1..Len(lastClassify.calls) :
    \E i \in 1..Len(lastClassify.calls[c]) :
      classifications[lastClassify.calls[c][i]] # Null

\* C22: after a classification operation that stored new entries, today's
\* snapshot exists and its category totals are those of the sessions under
\* the cache as it now is.
C22_SnapshotFollowsCache ==
  (lastClassify.op # "none" /\ WroteEntries) =>
    /\ dailyStats[Today(now)] # Null
    /\ dailyStats[Today(now)].productiveTime =
         Snapshot(Cur, Today(now), Null).productiveTime
    /\ dailyStats[Today(now)].distractionTime =
         Snapshot(Cur, Today(now), Null).distractionTime
    /\ dailyStats[Today(now)].neutralTime =
         Snapshot(Cur, Today(now), Null).neutralTime

\* ---------------------------------------------------- hours specification
\* The user keeps the default hours or sets the three rules to midnight; the
\* alarms tick in the first minutes of the day and at 09:00, 10:00 and 18:00.
HoursMarks == {0, 1, 2, 9 * 60, 10 * 60, 18 * 60}
HoursInstants == {StartTime + m * MinuteSec : m \in HoursMarks}
MidnightConfig ==
  [TrackConfig EXCEPT !.morningBriefingHour = 0, !.readyCheckHour = 0,
                        !.endOfDayHour = 0]

InitHours ==
  /\ now = StartTime
  /\ tz = 0
  /\ config \in {TrackConfig, MidnightConfig}
  /\ remote = [calendar |-> NoMeetings, version |-> [k \in CacheKeys |-> 0]]
  /\ sessions = <<>>
  /\ classifications =
       [NoClassifications EXCEPT !["github.com"] = Classified("productive", "ai")]
  /\ InitProgram(FALSE)

NextHours ==
  \/ Advance(HoursInstants)
  \/ TabChange(DailyUrls)
  \/ HeartbeatAlarm
  \/ MorningBriefingAlarm(DailyFetches)
  \/ ReadyCheckAlarm(DailyFetches)
  \/ EndOfDayAlarm

SpecHours == InitHours /\ [][NextHours]_vars

\* The local hour is h and the minute is one of the first two.
OwnWindow(h) == GetHours(now) = h /\ GetMinutes(now) < WindowMinutes

\* C23: an enabled and armed briefing fires on a tick exactly in the window of
\* the configured briefing hour, the nudge fires only in the window of the
\* configured nudge hour, and the end-of-day rule, enabled and not yet run
\* today, runs exactly in the window of the configured end-of-day hour, for
\* every hour 0..23.
C23_WindowOfConfiguredHour ==
  /\ (config.enableMorningBriefing
        /\ ~resetDailyStateIfNeeded(Cur).dailyState.morningBriefingSent)
       => (Len(checkMorningBriefing(Cur, AllOk).notifLog) > Len(notifLog)
             <=> OwnWindow(config.morningBriefingHour))
  /\ (config.enableStartNudges
        /\ ~resetDailyStateIfNeeded(Cur).dailyState.readyNudgeSent
        /\ ~resetDailyStateIfNeeded(Cur).dailyState.firstProductiveCelebrated
        /\ dailyStats[Today(now)] = Null)
       => (Len(checkReadyToStart(Cur, AllOk).notifLog) > Len(notifLog)
             <=> OwnWindow(config.readyCheckHour))
  /\ (config.enableEndOfDaySummary /\ Today(now) \notin markers.eod)
       => (checkEndOfDay(Cur).markers # markers <=> OwnWindow(config.endOfDayHour))

\* The heartbeat's meeting check, the calendar read ending as outcome, warns
\* about the meeting id.
WarnsNow(id, outcome) ==
  \E k \in (Len(notifLog) + 1)..Len(checkMeetingAwareness(Cur, outcome).notifLog) :
    /\ checkMeetingAwareness(Cur, outcome).notifLog[k].rule = "meeting"
    /\ checkMeetingAwareness(Cur, outcome).notifLog[k].subject = id

\* C24: on a heartbeat, a meeting of the list read from the calendar that has
\* not been warned yet is warned exactly when its time until start lies
\* between the configured lead minus one minute and the lead plus two
\* minutes, both bounds included.
C24_BandBothBoundsIncluded ==
  config.enableMeetingAwareness =>
    \A outcome \in Outcomes :
      LET events == SafeEvents(getTodaysEvents(Cur, outcome))
          lead == config.meetingWarningMinutes * MinuteSec
      IN \A i \in 1..Len(events) :
           events[i].id \notin notifiedMeetings =>
             (WarnsNow(events[i].id, outcome) <=>
                /\ events[i].start - now >= lead - BufferSec
                /\ events[i].start - now <= lead + 2 * BufferSec)

\* ---------------------------------------------------- nudge specification
\* The minutes around local 10:00 of the first day: the user may open
\* github.com, cached as productive, and the worker may be restarted.
NudgeOffsets == {-2, -1, 0, 1}
NudgeInstants ==
  {StartTime + DefaultReadyHour * HourSec + m * MinuteSec : m \in NudgeOffsets}

InitNudge ==
  /\ now = StartTime + DefaultReadyHour * HourSec - 2 * MinuteSec
  /\ tz = 0
  /\ config = TrackConfig
  /\ remote = [calendar |-> NoMeetings, version |-> [k \in CacheKeys |-> 0]]
  /\ sessions = <<>>
  /\ classifications =
       [NoClassifications EXCEPT !["github.com"] = Classified("productive", "ai")]
  /\ InitProgram(FALSE)

NextNudge ==
  \/ Advance(NudgeInstants)
  \/ TabChange(DailyUrls)
  \/ HeartbeatAlarm
  \/ ReadyCheckAlarm(DailyFetches)
  \/ Restart

SpecNudge == InitNudge /\ [][NextNudge]_vars

\* A ready-check tick in this state creates the nudge.
NudgeFiresNow ==
  \E fx \in DailyFetches :
    Len(checkReadyToStart(Cur, fx).notifLog) > Len(notifLog)

\* Today's snapshot shows less than a minute of productive time.
LittleProductive ==
  IF dailyStats[Today(now)] = Null THEN TRUE
  ELSE dailyStats[Today(now)].productiveTime < ReadyProductiveSec

CleanupInstants == {StartTime + 20, StartTime + DaySec + MinuteSec}

\* A record of a visit thirty days before the first modelled day: it expires
\* ten seconds after the start.
AgedSession ==
  [ url |-> Url("https", "github.com", "/"), domain |-> "github.com",
    startTime |-> StartTime + 10 - RetentionSec,
    endTime |-> StartTime + 19 - RetentionSec,
    duration |-> 9, date |-> Today(StartTime + 10 - RetentionSec),
    classification |-> "productive", expiresAt |-> StartTime + 10 ]

\* The sets of stores whose deletion rejects during one sweep.
FailingStores ==
  { {}, {"browsing_sessions"}, {"clipboard_entries", "external_cache"},
    {CleanupStores[i] : i \in 1..Len(CleanupStores)} }

InitCleanup ==
  /\ now = StartTime
  /\ tz = 0
  /\ config = TrackConfig
  /\ remote = [calendar |-> NoMeetings, version |-> [k \in CacheKeys |-> 0]]
  /\ sessions = <<AgedSession>> \o SessionsOn(2)
  /\ classifications = NoClassifications
  /\ InitProgram(FALSE)

NextCleanup ==
  \/ Advance(CleanupInstants)
  \/ GetWeatherMessage
  \/ GetCalendarEventsMessage
  \/ CleanupAlarm(FailingStores)

SpecCleanup == InitCleanup /\ [][NextCleanup]_vars

RearmMarks == {DefaultEndOfDayHour * HourSec}
RearmConfig == [DefaultConfig EXCEPT !.morningBriefingHour = DefaultEndOfDayHour]
RearmInstants == {StartTime + m : m \in RearmMarks}
RearmMeetingStart == StartTime + DefaultEndOfDayHour * HourSec + 6 * MinuteSec

InitRearm ==
  /\ now = StartTime
  /\ tz = 0
  /\ config = RearmConfig
  /\ remote = [calendar |-> [NoMeetings EXCEPT !["m1"].start = RearmMeetingStart],
               version |-> [k \in CacheKeys |-> 0]]
  /\ sessions = <<>>
  /\ classifications =
       [NoClassifications EXCEPT !["github.com"] = Classified("productive", "ai")]
  /\ InitProgram(FALSE)

NextRearm ==
  \/ Advance(RearmInstants)
  \/ TabChange(DailyUrls)
  \/ HeartbeatAlarm
  \/ MorningBriefingAlarm(DailyFetches)
  \/ EndOfDayAlarm
  \/ Restart

SpecRearm == InitRearm /\ [][NextRearm]_vars

\* The rule fired today in an earlier process and not yet in the running one.
FiredByEarlier(rule) ==
  /\ \E e \in 0..(epoch - 1) : Fired(rule, Today(now), e) # {}
  /\ Fired(rule, Today(now), epoch) = {}

WarnedByEarlier(id) ==
  /\ \E i \in Warnings(id) : notifLog[i].epoch < epoch
  /\ \A i \in Warnings(id) : notifLog[i].epoch # epoch

\* The handler that led to s created a notification of the rule.
Creates(s, rule) ==
  \E k \in (Len(notifLog) + 1)..Len(s.notifLog) : s.notifLog[k].rule = rule

RetainDomains == {1, BatchMax + 1}
RetainInstants == {StartTime + 20}

InitRetain ==
  /\ now = StartTime
  /\ tz = 0
  /\ config = TrackConfig
  /\ remote = [calendar |-> NoMeetings, version |-> [k \in CacheKeys |-> 0]]
  /\ \E n \in RetainDomains : sessions = <<AgedSession>> \o SessionsOn(n)
  /\ classifications = NoClassifications
  /\ InitProgram(FALSE)

NextRetain ==
  \/ Advance(RetainInstants)
  \/ ClassifyAlarm
  \/ ClassifyDomainMessage
  \/ CleanupAlarm({{}})
  \/ Restart

SpecRetain == InitRetain /\ [][NextRetain]_vars

\* The domains in the requests of a record of classifier calls.
SentIn(rec) ==
  UNION { {rec.calls[c][i] : i \in 1..Len(rec.calls[c])} : c \in 1..Len(rec.calls) }

\* The domains a classify operation sends when it starts in the current
\* state: op applied with the record of the calls before cleared.
SentByBatch(response) ==
  SentIn(batchClassifyDomains([Cur EXCEPT !.lastClassify = NoClassify], response).lastClassify)
SentByHandler(k, response) ==
  SentIn(ClassifyDomainHandler([Cur EXCEPT !.lastClassify = NoClassify],
                               [i \in 1..k |-> Site(i)], response).lastClassify)

C29_FlushesDisjoint ==
  \A i, j \in 1..Len(sessions) :
    i < j =>
      \/ sessions[i].endTime <= sessions[j].startTime
      \/ sessions[j].endTime <= sessions[i].startTime

\* -------------------------------------------------- heartbeat specification
\* The heartbeat alarm fires every 30 s from the start: the clock does not
\* pass an instant of the alarm before the heartbeat has run.  The user
\* changes context at the start, 25 s later or at a heartbeat, and the worker
\* may die at any instant.
BeatPeriod == 30
BeatOffsets == {25, 30, 60, 90}
BeatUrls == {Url("https", "github.com", "/"), Url("chrome", "newtab", "/")}
BeatInstants == {StartTime + o : o \in BeatOffsets}

IsBeat(t) == t > StartTime /\ (t - StartTime) % BeatPeriod = 0
NextBeat(t) == StartTime + ((t - StartTime) \div BeatPeriod + 1) * BeatPeriod

\* The heartbeat of the current instant has run: it stamps today's snapshot.
BeatRan ==
  IF dailyStats[Today(now)] = Null THEN FALSE
  ELSE dailyStats[Today(now)].updatedAt = now

BeatAdvance ==
  /\ IsBeat(now) => BeatRan
  /\ Advance({t \in BeatInstants : t <= NextBeat(now)})

BeatAlarm ==
  /\ IsBeat(now)
  /\ ~BeatRan
  /\ HeartbeatAlarm

InitBeat ==
  /\ now = StartTime
  /\ tz = 0
  /\ config = TrackConfig
  /\ remote = [calendar |-> NoMeetings, version |-> [k \in CacheKeys |-> 0]]
  /\ sessions = <<>>
  /\ classifications = NoClassifications
  /\ InitProgram(TRUE)

NextBeatStep ==
  \/ BeatAdvance
  \/ TabChange(BeatUrls)
  \/ BeatAlarm
  \/ Restart

SpecBeat == InitBeat /\ [][NextBeatStep]_vars

\* The time of the open session that no stored record covers.
Unsaved == IF activeTabState = Null THEN 0 ELSE now - activeTabState.startTime

\* The wall-clock time since the first event that is neither stored, nor
\* spent with no session open, nor a discarded span of at most one second,
\* nor the unsaved time of the open session: the time lost to worker deaths.
Lost ==
  (now - track.first) - SessionTime - track.excluded - track.dropped - Unsaved

\* C30: with a heartbeat every 30 s, the time of the open session that is
\* not in storage is the time since its last flush or its start and never
\* more than 30 s + 5 s, so each death of the worker loses at most 35 s and
\* nothing else is lost.
C30_LossBounded ==
  /\ Unsaved <= BeatPeriod + HeartbeatMinSec
  /\ track.first >= 0 =>
       /\ Lost >= 0
       /\ Lost <= epoch * (BeatPeriod + HeartbeatMinSec)
       /\ epoch = 0 => Lost = 0

\* Two deaths-free flushes of one session are stored and the worker died
\* thirty seconds after the second: those thirty seconds are all that is lost.
C30_Witness ==
  /\ epoch = 1
  /\ track.first >= 0
  /\ Lost = BeatPeriod
  /\ Len(sessions) = 2
  /\ sessions[1].url = sessions[2].url
  /\ sessions[1].endTime = sessions[2].startTime
  /\ SessionTime = 2 * BeatPeriod

\* ------------------------------------------------------- milestone claims
\* The productive time of the sessions stored in s under today's day key.
ProductiveToday(s) == ClassTime(s, SelectSeqBy(s.sessions, Today(now)), {"productive"})

LatchInstants == {StartTime + 61 * MinuteSec}
LatchConfig == [TrackConfig EXCEPT !.dailyFocusGoalMinutes = 60]

InitLatch ==
  /\ now = StartTime
  /\ tz = 0
  /\ config = LatchConfig
  /\ remote = [calendar |-> NoMeetings, version |-> [k \in CacheKeys |-> 0]]
  /\ sessions = <<>>
  /\ classifications =
       [NoClassifications EXCEPT !["github.com"] = Classified("productive", "ai")]
  /\ InitProgram(FALSE)

\* A CLASSIFY_DOMAIN message for site1 answered with an item on github.com.
ReclassifyMessage ==
  /\ \E class \in {"productive", "distraction"} :
       /\ classifications["github.com"].classification # class
       /\ Commit(ClassifyDomainHandlerStoring(Cur, <<Site(1)>>,
                   <<[domain |-> "github.com", classification |-> class]>>))
  /\ UNCHANGED envVars

NextLatch ==
  \/ Advance(LatchInstants)
  \/ TabChange(DailyUrls)
  \/ HeartbeatAlarm
  \/ ReclassifyMessage
  \/ Restart

SpecLatch == InitLatch /\ [][NextLatch]_vars

Milestones == {"milestone_1hr", "milestone_goal"}

\* C32 (as stated): each milestone is created at most once on a day, also
\* when the snapshot's productive time drops below the threshold after a
\* reclassification and rises above it again.
C32_MilestoneLatched ==
  \A rule \in Milestones : \A day \in Days :
    Cardinality({i \in 1..Len(notifLog) :
                   notifLog[i].rule = rule /\ Today(notifLog[i].at) = day}) <= 1

\* C32 (amended): a process creates each milestone at most once on a day,
\* also when the snapshot's productive time drops below the threshold after
\* a reclassification and rises above it again.
C32_MilestoneLatchedInProcess ==
  \A rule \in Milestones : \A day \in Days : \A e \in 0..epoch :
    Cardinality({i \in 1..Len(notifLog) :
                   /\ notifLog[i].rule = rule
                   /\ Today(notifLog[i].at) = day
                   /\ notifLog[i].epoch = e}) <= 1

\* The running process created the one-hour milestone, then an alert on a
\* snapshot that counted the same hour as distraction, and a later heartbeat
\* has stored a snapshot with the hour productive again.
C32_Witness ==
  /\ \E i, j \in 1..Len(notifLog) :
       /\ i < j
       /\ notifLog[i].rule = "milestone_1hr" /\ notifLog[i].epoch = epoch
       /\ notifLog[j].rule = "distraction_alert" /\ notifLog[j].epoch = epoch
       /\ Today(notifLog[i].at) = Today(now)
  /\ dailyState.oneHourCelebrated
  /\ IF dailyStats[Today(now)] = Null THEN FALSE
     ELSE dailyStats[Today(now)].productiveTime >= OneHourSec

\* C33: a heartbeat at which alerts are enabled, the snapshot it stores shows
\* a distraction time at or above the configured threshold, and every alert
\* created so far is at least 30 minutes old or none was created today,
\* creates an alert.
C33_AlertRepeatsAfterCooldown ==
  \A outcome \in Outcomes :
    LET h == Heartbeat(Cur, outcome)
        snapshot == h.dailyStats[Today(now)]
    IN (/\ config.enableDistractionAlerts
        /\ snapshot.distractionTime >= config.distractionAlertMinutes * MinuteSec
        /\ \/ \A i \in Alerts : now - notifLog[i].at >= CooldownSec
           \/ \A i \in Alerts : Today(notifLog[i].at) # Today(now))
       => Creates(h, "distraction_alert")

\* Two alerts of one day, the second created exactly 30 minutes after the
\* first on a snapshot whose distraction time had stayed above the threshold.
C33_Witness ==
  \E i, j \in Alerts :
    /\ notifLog[j].at = now
    /\ notifLog[j].at - notifLog[i].at = CooldownSec
    /\ Today(notifLog[i].at) = Today(now)
    /\ notifLog[i].epoch = notifLog[j].epoch

\* ------------------------------------------------------ prune specification
\* Meeting m1 starts at 23:55 of the day before the last midnight and m2 at
\* 01:01 after it; heartbeats from 23:50 to 00:57, the user on github.com.
PruneOffsets == {-10, -9, 56, 57}
PruneInstants == {LastMidnight + m * MinuteSec : m \in PruneOffsets}

InitPrune ==
  /\ now = LastMidnight - 10 * MinuteSec
  /\ tz = 0
  /\ config = DefaultConfig
  /\ remote = [calendar |->
                 [NoMeetings EXCEPT !["m1"].start = LastMidnight - 5 * MinuteSec,
                                    !["m2"].start = LastMidnight + 61 * MinuteSec],
               version |-> [k \in CacheKeys |-> 0]]
  /\ sessions = <<>>
  /\ classifications = NoClassifications
  /\ InitProgram(FALSE)

NextPrune ==
  \/ Advance(PruneInstants)
  \/ TabChange(DailyUrls)
  \/ HeartbeatAlarm

SpecPrune == InitPrune /\ [][NextPrune]_vars

\* C34: after a heartbeat, whatever its calendar read returned, the warned
\* set holds no meeting that started more than one hour ago.
C34_NoStaleWarned ==
  \A outcome \in Outcomes :
    \A id \in Heartbeat(Cur, outcome).notifiedMeetings :
      now - remote.calendar[id].start <= PruneAfterSec

\* -------------------------------------------------------- day-key claims
\* C35: after a heartbeat, every day that has stored sessions has a snapshot
\* whose total time and session count are those of all the sessions stored
\* under the day's key.
C35_SnapshotIsFoldOfDay ==
  \A outcome \in Outcomes :
    LET h == Heartbeat(Cur, outcome) IN
    \A d \in Days :
      LET list == SelectSeqBy(h.sessions, d) IN
      list # <<>> =>
        IF h.dailyStats[d] = Null THEN FALSE
        ELSE /\ h.dailyStats[d].totalTime = TotalTime(list)
             /\ h.dailyStats[d].sessionCount = Len(list)

\* C36: the day key of every stored session record is the calendar date of
\* the record's own startTime.
C36_DayKeyOfOwnStart ==
  \A i \in 1..Len(sessions) : sessions[i].date = Today(sessions[i].startTime)

\* ------------------------------------------------------- snapshot claims
\* The three buckets of the snapshot add up to its total, nothing is
\* negative, and its top domains are at most 20 in non-increasing order.
WellFormedSnapshot(stats) ==
  /\ stats.totalTime = stats.productiveTime + stats.distractionTime + stats.neutralTime
  /\ stats.totalTime >= 0 /\ stats.productiveTime >= 0
  /\ stats.distractionTime >= 0 /\ stats.neutralTime >= 0
  /\ Len(stats.topDomains) <= TopN
  /\ \A i \in 1..(Len(stats.topDomains) - 1) :
       stats.topDomains[i].duration >= stats.topDomains[i + 1].duration

\* C37: every stored snapshot is well formed, and the snapshot an
\* aggregation stores now has the summed duration of all of today's stored
\* sessions, the unclassified ones included, as its total.
C37_SnapshotWellFormed ==
  /\ \A d \in Days : dailyStats[d] # Null => WellFormedSnapshot(dailyStats[d])
  /\ LET stats == aggregateDailyStats(Cur).dailyStats[Today(now)] IN
       /\ WellFormedSnapshot(stats)
       /\ stats.totalTime = TotalTime(SelectSeqBy(sessions, Today(now)))

\* A stored snapshot of 21 domains, 20 of them classified and one not: its
\* neutral bucket holds the unclassified time and its top list 20 domains.
C37_Witness ==
  /\ dailyStats[Today(now)] # Null
  /\ dailyStats[Today(now)].sessionCount = BatchMax + 1
  /\ Len(dailyStats[Today(now)].topDomains) = TopN
  /\ dailyStats[Today(now)].neutralTime > 0
  /\ dailyStats[Today(now)].neutralTime < dailyStats[Today(now)].totalTime


\* --------------------------------------------------- router specification
\* Messages of every kind reach the worker, before and after the cache went
\* stale, between the install and browser-start events and the respawns of
\* the worker.
RouterInstants == {StartTime + 20 * MinuteSec}
RouterActions == {NoAction, "NOT_REGISTERED", "GET_WEATHER", "GET_CALENDAR_EVENTS"}

\* The chrome.runtime.onInstalled and chrome.runtime.onStartup listeners: both
\* call initialize().
OnInstalledOrStartup ==
  /\ listeners <= MaxInits
  /\ Commit(initialize(Cur))
  /\ UNCHANGED envVars

MessageArrives ==
  /\ \E action \in RouterActions : \E outcome \in Outcomes :
       Commit(onMessage(Cur, action, outcome))
  /\ UNCHANGED envVars

NextRouter ==
  \/ Advance(RouterInstants)
  \/ OnInstalledOrStartup
  \/ MessageArrives
  \/ Restart

SpecRouter == InitMeeting /\ [][NextRouter]_vars

\* C38: a message whose action has a registered handler causes exactly one
\* handler invocation and exactly one response, however often initialize()
\* has run; a handler that throws yields a response with success = false and
\* the error message; a message without action or with an unknown action
\* yields a failure response and no handler invocation.
C38_OneInvocationOneResponse ==
  /\ lastDispatch.action \in handlers =>
       /\ lastDispatch.invocations = 1
       /\ Len(lastDispatch.responses) = 1
  /\ lastDispatch.action \notin handlers /\ lastDispatch # NoDispatch =>
       /\ lastDispatch.invocations = 0
       /\ Len(lastDispatch.responses) >= 1
       /\ \A i \in 1..Len(lastDispatch.responses) : ~lastDispatch.responses[i].success
  /\ \A action \in handlers : \A outcome \in Outcomes :
       LET r == RunHandler(Cur, action, outcome)
           d == Listener([state |-> Cur, invocations |-> 0, responses |-> <<>>],
                         action, outcome)
       IN r.threw => d.responses = <<Response(FALSE, r.error)>>

\* What the router does hold: a message finds every listener added so far,
\* each of which invokes the handler of a registered action once and answers
\* once, and answers a failure without a handler otherwise.
RouterAnswersPerListener ==
  \A action \in RouterActions : \A outcome \in Outcomes :
    LET d == onMessage(Cur, action, outcome).lastDispatch
    IN /\ Len(d.responses) = listeners
       /\ d.invocations = IF action \in handlers THEN listeners ELSE 0
       /\ action \notin handlers =>
            \A i \in 1..Len(d.responses) : ~d.responses[i].success

\* A handled message found three listeners.
RouterThreeListeners ==
  /\ lastDispatch.action = "GET_CALENDAR_EVENTS"
  /\ lastDispatch.invocations = 3


\* -------------------------------------------------- sign-out specification
\* Calendar and mail requests, heartbeats and sign-outs, before and after the
\* cached calendar went stale.
SignOutInstants == {StartTime + 2 * MinuteSec, StartTime + 6 * MinuteSec}
GoogleActions == {"GET_CALENDAR_EVENTS", "GET_GMAIL_UNREAD", "GOOGLE_SIGN_OUT"}

GoogleMessageArrives ==
  /\ \E action \in GoogleActions : \E outcome \in Outcomes :
       Commit(onMessage(Cur, action, outcome))
  /\ UNCHANGED envVars

NextSignOut ==
  \/ Advance(SignOutInstants)
  \/ GoogleMessageArrives
  \/ HeartbeatAlarm

SpecSignOut == InitMeeting /\ [][NextSignOut]_vars

GoogleKeys == {"google_calendar", "google_gmail"}

\* C39: after the GOOGLE_SIGN_OUT handler has run, the handler has reported
\* success and the external cache holds no calendar and no mail entry of the
\* time before the sign-out, so that no later request is served one.
C39_SignOutClearsCache ==
  lastDispatch.action = "GOOGLE_SIGN_OUT" =>
    /\ \A i \in 1..Len(lastDispatch.responses) : lastDispatch.responses[i].success
    /\ \A key \in GoogleKeys :
         IF externalCache[key] = Null THEN TRUE
         ELSE externalCache[key].fetchedAt >= lastDispatch.at

\* The sign-out has run and answered a failure; the calendar entry fetched
\* before it is in the cache and is what a calendar request whose fetch fails
\* would be given.
SignOutLeavesCache ==
  /\ lastDispatch.action = "GOOGLE_SIGN_OUT"
  /\ lastDispatch.responses = <<Response(FALSE, "db.delete is not a function")>>
  /\ IF externalCache["google_calendar"] = Null THEN FALSE
     ELSE /\ externalCache["google_calendar"].fetchedAt < lastDispatch.at
          /\ getTodaysEvents(Cur, "unauthenticated").lastFetch.data
               = externalCache["google_calendar"].data
          /\ externalCache["google_calendar"].data # <<>>


\* ------------------------------------------- recurring classify ticks
\* The classify alarm is periodic and has no guard: it keeps firing, whatever
\* the classifier answers.  The alarm's step is the only one that changes
\* classifyTick, so the fairness of the alarm is the fairness of that change.
AlarmFired == classifyTick' = 1 - classifyTick

SpecClassifyFair == InitClassify /\ [][NextClassify]_vars /\ WF_classifyTick(AlarmFired)

\* The domain is one a classify tick would find unresolved now.
Unresolved(domain) ==
  LET uncached == Uncached(Cur, SelectSeqBy(sessions, Today(now)), <<>>)
  IN \E i \in 1..Len(uncached) : uncached[i] = domain

\* The domain was sent to the classifier by the latest classify operation.
IncludedInCall(domain) ==
  \E c \in 1..Len(lastClassify.calls) :
    \E i \in 1..Len(lastClassify.calls[c]) : lastClassify.calls[c][i] = domain

\* The domains followed: the first one visited, and the first one beyond a
\* batch.
StarveDomains == {Site(1), Site(BatchMax + 1)}

\* C40: with classify ticks recurring, every unresolved domain of today is
\* eventually included in a classifier call, whatever the classifier answers
\* to the calls that hold other domains.
C40_NoStarvation ==
  \A domain \in StarveDomains : Unresolved(domain) ~> IncludedInCall(domain)

\* The first domain visited is not starved.
FirstDomainIncluded == Unresolved(Site(1)) ~> IncludedInCall(Site(1))

\* Where every classifier call succeeds, the domain beyond the first batch is
\* reached by the second tick.
SecondBatchReached ==
  /\ lastClassify.op = "batch"
  /\ Len(lastClassify.unresolved) > BatchMax
  /\ IncludedInCall(Site(BatchMax + 1))

=============================================================================
